---- MODULE Spec2Model ----
(***************************************************************************)
(* A model of the journal application's signed session token               *)
(* (core/auth.py) and of the session handling built on it.                 *)
(*                                                                         *)
(* Strings and byte strings are sequences of character codes (ASCII).      *)
(* Instants are whole seconds since 2026-01-01T00:00:00 (the clock is      *)
(* datetime.utcnow()).                                                     *)
(***************************************************************************)
EXTENDS Integers, Sequences, FiniteSets, TLC

(***************************************************************************)
(* Bounds of the model.                                                    *)
(***************************************************************************)
MaxUsers == 2      \* rows the users table may hold
MaxSessions == 2   \* browser sessions at work on the journal_entries table
MaxSections == 3   \* delimiters of an uploaded multi-entry file
MaxMembers == 3    \* members of an uploaded archive
MaxBytes == 4      \* bytes of an uploaded buffer that is decoded
MaxPeriods == 3    \* the clock runs over this many half session lifetimes
DigestHexLen == 4  \* hexadecimal digits of a digest

(***************************************************************************)
(* Program constants.                                                      *)
(***************************************************************************)
_SESSION_PARAM == "_s"
_SESSION_DAYS == 30

\* Python's None where an Optional[int] is expected: no user id is negative.
None == -1
SecondsPerDay == 24 * 60 * 60

(***************************************************************************)
(* Characters.                                                             *)
(***************************************************************************)
Printable ==
  << " ", "!", "\"", "#", "$", "%", "&", "'", "(", ")", "*", "+", ",", "-", ".", "/",
     "0", "1", "2", "3", "4", "5", "6", "7", "8", "9", ":", ";", "<", "=", ">", "?",
     "@", "A", "B", "C", "D", "E", "F", "G", "H", "I", "J", "K", "L", "M", "N", "O",
     "P", "Q", "R", "S", "T", "U", "V", "W", "X", "Y", "Z", "[", "\\", "]", "^", "_",
     "(grave)", "a", "b", "c", "d", "e", "f", "g", "h", "i", "j", "k", "l", "m", "n", "o",
     "p", "q", "r", "s", "t", "u", "v", "w", "x", "y", "z", "{", "|", "}", "~" >>

\* ord(c) of a printable ASCII character (codes 32..126; the grave accent, 96,
\* has no literal here).
OrdTable ==
  [c \in {Printable[i] : i \in 1..Len(Printable)} |->
     31 + (CHOOSE i \in 1..Len(Printable) : Printable[i] = c)]

Ord(c) == OrdTable[c]

\* The byte string of a literal, written one character per element.
Bytes(lit) == [i \in 1..Len(lit) |-> Ord(lit[i])]

\* A code point outside ASCII (U+00E9).
NonAscii == 233

IsAscii(s) == \A i \in 1..Len(s) : s[i] < 128

IsDigit(c) == c >= Ord("0") /\ c <= Ord("9")

RECURSIVE Power(_, _)
Power(b, n) == IF n = 0 THEN 1 ELSE b * Power(b, n - 1)

\* The decimal digits of n, zero-padded to the given width.
RECURSIVE Digits(_, _)
Digits(n, width) ==
  IF width = 0 THEN << >>
  ELSE Append(Digits(n \div 10, width - 1), Ord("0") + (n % 10))

\* str(n) for n >= 0.
RECURSIVE Str(_)
Str(n) == IF n < 10 THEN << Ord("0") + n >> ELSE Append(Str(n \div 10), Ord("0") + (n % 10))

\* The number written by a sequence of decimal digits.
RECURSIVE DigitsValue(_)
DigitsValue(s) ==
  IF s = << >> THEN 0
  ELSE 10 * DigitsValue(SubSeq(s, 1, Len(s) - 1)) + (s[Len(s)] - Ord("0"))

AllDigits(s) == \A i \in 1..Len(s) : IsDigit(s[i])

(***************************************************************************)
(* The outcome of an operation that may raise: the value it returns, or    *)
(* the name of the exception it raises.                                    *)
(***************************************************************************)
Return(v) == [raised |-> "", val |-> v]
Raise(exc) == [raised |-> exc, val |-> None]
IsRaised(r) == r.raised # ""

(***************************************************************************)
(* base64 (the standard library's codec, as the token code calls it).      *)
(***************************************************************************)
\* The character of a sextet in the URL-safe alphabet: A-Z a-z 0-9 - _
B64Char(v) ==
  IF v < 26 THEN Ord("A") + v
  ELSE IF v < 52 THEN Ord("a") + (v - 26)
  ELSE IF v < 62 THEN Ord("0") + (v - 52)
  ELSE IF v = 62 THEN Ord("-") ELSE Ord("_")

\* base64.urlsafe_b64encode: three bytes make four characters; a final group
\* of one or two bytes is padded with "=".
RECURSIVE urlsafe_b64encode(_)
urlsafe_b64encode(b) ==
  IF Len(b) = 0 THEN << >>
  ELSE IF Len(b) = 1 THEN
    << B64Char(b[1] \div 4), B64Char((b[1] % 4) * 16), Ord("="), Ord("=") >>
  ELSE IF Len(b) = 2 THEN
    << B64Char(b[1] \div 4), B64Char((b[1] % 4) * 16 + b[2] \div 16),
       B64Char((b[2] % 16) * 4), Ord("=") >>
  ELSE
    << B64Char(b[1] \div 4), B64Char((b[1] % 4) * 16 + b[2] \div 16),
       B64Char((b[2] % 16) * 4 + b[3] \div 64), B64Char(b[3] % 64) >>
    \o urlsafe_b64encode(SubSeq(b, 4, Len(b)))

\* The sextet of a character after urlsafe_b64decode's translation of "-" to
\* "+" and "_" to "/"; 64 for a character outside the alphabet.
B64Value(c) ==
  IF c >= Ord("A") /\ c <= Ord("Z") THEN c - Ord("A")
  ELSE IF c >= Ord("a") /\ c <= Ord("z") THEN 26 + (c - Ord("a"))
  ELSE IF IsDigit(c) THEN 52 + (c - Ord("0"))
  ELSE IF c = Ord("-") \/ c = Ord("+") THEN 62
  ELSE IF c = Ord("_") \/ c = Ord("/") THEN 63
  ELSE 64

\* One step of binascii.a2b_base64 without strict mode, on character c in
\* state st = [quad_pos, leftchar, pads, out, done]: a character outside the
\* alphabet is skipped, a completed pad sequence ends the input.
a2b_step(st, c) ==
  IF st.done THEN st
  ELSE IF c = Ord("=") THEN
    IF st.quad_pos >= 2 /\ st.quad_pos + st.pads + 1 >= 4 THEN [st EXCEPT !.done = TRUE]
    ELSE IF st.quad_pos >= 2 THEN [st EXCEPT !.pads = st.pads + 1]
    ELSE st
  ELSE IF B64Value(c) >= 64 THEN st
  ELSE
    LET v == B64Value(c) IN
    IF st.quad_pos = 0 THEN
      [st EXCEPT !.quad_pos = 1, !.leftchar = v, !.pads = 0]
    ELSE IF st.quad_pos = 1 THEN
      [st EXCEPT !.quad_pos = 2, !.leftchar = v % 16, !.pads = 0,
                 !.out = Append(st.out, st.leftchar * 4 + v \div 16)]
    ELSE IF st.quad_pos = 2 THEN
      [st EXCEPT !.quad_pos = 3, !.leftchar = v % 4, !.pads = 0,
                 !.out = Append(st.out, st.leftchar * 16 + v \div 4)]
    ELSE
      [st EXCEPT !.quad_pos = 0, !.leftchar = 0, !.pads = 0,
                 !.out = Append(st.out, st.leftchar * 64 + v)]

\* The steps over s[lo..hi] in order (the range is halved to keep the
\* evaluation shallow).
RECURSIVE a2b_run(_, _, _, _)
a2b_run(st, s, lo, hi) ==
  IF lo > hi THEN st
  ELSE IF lo = hi THEN a2b_step(st, s[lo])
  ELSE LET mid == (lo + hi) \div 2
           left == a2b_run(st, s, lo, mid)
       IN IF left.done THEN left ELSE a2b_run(left, s, mid + 1, hi)

\* binascii.a2b_base64: an incomplete final quad is an error.
a2b_base64(s) ==
  LET st == a2b_run([quad_pos |-> 0, leftchar |-> 0, pads |-> 0, out |-> << >>,
                     done |-> FALSE], s, 1, Len(s))
  IN IF ~st.done /\ st.quad_pos # 0 THEN Raise("binascii.Error") ELSE Return(st.out)

\* base64.urlsafe_b64decode of a str: non-ASCII text is a ValueError.
urlsafe_b64decode(s) ==
  IF ~IsAscii(s) THEN Raise("ValueError")
  ELSE a2b_base64(s)

(***************************************************************************)
(* hmac.new(key, msg, hashlib.sha256).hexdigest().  The digest is          *)
(* abstracted to a keyed checksum of DigestHexLen hexadecimal digits: a     *)
(* deterministic function of the key and of every message byte.            *)
(***************************************************************************)
HexChar(v) == IF v < 10 THEN Ord("0") + v ELSE Ord("a") + (v - 10)

RECURSIVE HexDigits(_, _)
HexDigits(n, width) ==
  IF width = 0 THEN << >>
  ELSE Append(HexDigits(n \div 16, width - 1), HexChar(n % 16))

DigestRange == Power(16, DigestHexLen)

\* The position-weighted sum of the bytes b[lo..hi], modulo the digest range.
RECURSIVE Absorb(_, _, _)
Absorb(b, lo, hi) ==
  IF lo > hi THEN 0
  ELSE IF lo = hi THEN ((b[lo] + 1) * (lo * lo + 3)) % DigestRange
  ELSE LET mid == (lo + hi) \div 2
       IN (Absorb(b, lo, mid) + Absorb(b, mid + 1, hi)) % DigestRange

hmac_hexdigest(key, msg) ==
  LET keyed == key \o msg \o key
  IN HexDigits(Absorb(keyed, 1, Len(keyed)), DigestHexLen)

\* compare_digest comparing all but the last character.
compare_digest_prefix(a, b) ==
  IF ~IsAscii(a) \/ ~IsAscii(b) THEN Raise("TypeError")
  ELSE Return(Len(a) = Len(b)
              /\ SubSeq(a, 1, Len(a) - 1) = SubSeq(b, 1, Len(b) - 1))

\* hmac.compare_digest on two str: TypeError when either holds non-ASCII.
compare_digest(a, b) ==
  IF ~IsAscii(a) \/ ~IsAscii(b) THEN Raise("TypeError") ELSE Return(a = b)

(***************************************************************************)
(* datetime: isoformat() and fromisoformat() of naive UTC instants.        *)
(***************************************************************************)
EpochYear == 2026

IsLeap(y) == (y % 4 = 0 /\ y % 100 # 0) \/ y % 400 = 0

DaysInYear(y) == IF IsLeap(y) THEN 366 ELSE 365

DaysInMonth(y, m) ==
  IF m = 2 THEN (IF IsLeap(y) THEN 29 ELSE 28)
  ELSE IF m \in {4, 6, 9, 11} THEN 30 ELSE 31

\* Days from the epoch to January 1st of year y.
RECURSIVE YearStart(_)
YearStart(y) ==
  IF y = EpochYear THEN 0
  ELSE IF y > EpochYear THEN YearStart(y - 1) + DaysInYear(y - 1)
  ELSE YearStart(y + 1) - DaysInYear(y)

RECURSIVE MonthStart(_, _)
MonthStart(y, m) == IF m = 1 THEN 0 ELSE MonthStart(y, m - 1) + DaysInMonth(y, m - 1)

\* The calendar date <<year, month, day>> of a day number (>= 0).
RECURSIVE DateOfDay(_, _, _)
DateOfDay(n, y, m) ==
  IF n < DaysInMonth(y, m) THEN << y, m, n + 1 >>
  ELSE IF m = 12 THEN DateOfDay(n - DaysInMonth(y, m), y + 1, 1)
  ELSE DateOfDay(n - DaysInMonth(y, m), y, m + 1)

\* datetime.isoformat(): YYYY-MM-DDTHH:MM:SS (the microsecond field is 0 and
\* therefore omitted).
isoformat(t) ==
  LET date == DateOfDay(t \div SecondsPerDay, EpochYear, 1)
      secs == t % SecondsPerDay
  IN Digits(date[1], 4) \o << Ord("-") >> \o Digits(date[2], 2) \o << Ord("-") >>
     \o Digits(date[3], 2) \o << Ord("T") >> \o Digits(secs \div 3600, 2)
     \o << Ord(":") >> \o Digits((secs \div 60) % 60, 2)
     \o << Ord(":") >> \o Digits(secs % 60, 2)

\* The date part YYYY-MM-DD of a string, as a day number, or ValueError.
ParseDate(s) ==
  IF ~(Len(s) = 10 /\ s[5] = Ord("-") /\ s[8] = Ord("-")
       /\ AllDigits(SubSeq(s, 1, 4)) /\ AllDigits(SubSeq(s, 6, 7))
       /\ AllDigits(SubSeq(s, 9, 10)))
  THEN Raise("ValueError")
  ELSE
    LET y == DigitsValue(SubSeq(s, 1, 4))
        m == DigitsValue(SubSeq(s, 6, 7))
        d == DigitsValue(SubSeq(s, 9, 10))
    IN IF y < 1 \/ m < 1 \/ m > 12 THEN Raise("ValueError")
       ELSE IF d < 1 \/ d > DaysInMonth(y, m) THEN Raise("ValueError")
       ELSE Return(YearStart(y) + MonthStart(y, m) + (d - 1))

\* The time part HH:MM:SS of a string, as seconds, or ValueError.
ParseTime(s) ==
  IF ~(Len(s) = 8 /\ s[3] = Ord(":") /\ s[6] = Ord(":")
       /\ AllDigits(SubSeq(s, 1, 2)) /\ AllDigits(SubSeq(s, 4, 5))
       /\ AllDigits(SubSeq(s, 7, 8)))
  THEN Raise("ValueError")
  ELSE
    LET h == DigitsValue(SubSeq(s, 1, 2))
        m == DigitsValue(SubSeq(s, 4, 5))
        sec == DigitsValue(SubSeq(s, 7, 8))
    IN IF h > 23 \/ m > 59 \/ sec > 59 THEN Raise("ValueError")
       ELSE Return(h * 3600 + m * 60 + sec)

\* datetime.fromisoformat of YYYY-MM-DD, YYYY-MM-DDTHH:MM:SS or the latter
\* followed by a UTC offset +HH:MM; the result is [t, aware], a TypeError for
\* a value that is not a str, a ValueError for any other text.
fromisoformat(v) ==
  IF v.type # "str" THEN Raise("TypeError")
  ELSE
    LET s == v.val IN
    IF Len(s) = 10 THEN
      (IF IsRaised(ParseDate(s)) THEN Raise("ValueError")
       ELSE Return([t |-> ParseDate(s).val * SecondsPerDay, aware |-> FALSE]))
    ELSE IF Len(s) \in {19, 25} /\ s[11] = Ord("T") THEN
      LET d == ParseDate(SubSeq(s, 1, 10))
          tm == ParseTime(SubSeq(s, 12, 19))
          offset_ok == Len(s) = 19
                       \/ (/\ s[20] = Ord("+") /\ s[23] = Ord(":")
                           /\ AllDigits(SubSeq(s, 21, 22))
                           /\ AllDigits(SubSeq(s, 24, 25))
                           /\ DigitsValue(SubSeq(s, 21, 22)) < 24
                           /\ DigitsValue(SubSeq(s, 24, 25)) < 60)
      IN IF IsRaised(d) \/ IsRaised(tm) \/ ~offset_ok THEN Raise("ValueError")
         ELSE Return([t |-> d.val * SecondsPerDay + tm.val
                            - (IF Len(s) = 25
                               THEN DigitsValue(SubSeq(s, 21, 22)) * 3600
                                    + DigitsValue(SubSeq(s, 24, 25)) * 60
                               ELSE 0),
                      aware |-> Len(s) = 25])
    ELSE Raise("ValueError")

(***************************************************************************)
(* json: dumps of the token payload and loads of a byte string.  A JSON    *)
(* value is [type, val]; the grammar covers what a payload can hold:       *)
(* objects whose members are strings (without escapes) and non-negative    *)
(* integers, without white space, as dumps writes them with the compact    *)
(* separators.  Any other text is a JSONDecodeError.                       *)
(***************************************************************************)
JsonInt(n) == [type |-> "int", val |-> n]
JsonStr(s) == [type |-> "str", val |-> s]
JsonObj(f) == [type |-> "dict", val |-> f]

\* json.dumps({"uid": user_id, "exp": exp}, separators=(",", ":")).encode()
json_dumps(user_id, exp) ==
  Bytes(<< "{", "\"", "u", "i", "d", "\"", ":" >>) \o Str(user_id)
  \o Bytes(<< ",", "\"", "e", "x", "p", "\"", ":", "\"" >>) \o exp
  \o Bytes(<< "\"", "}" >>)

\* The index of the quote closing the string whose text starts at j; 0 if none.
RECURSIVE StrEnd(_, _)
StrEnd(b, j) ==
  IF j > Len(b) THEN 0
  ELSE IF b[j] = Ord("\"") THEN j
  ELSE IF b[j] = Ord("\\") \/ b[j] < 32 THEN 0
  ELSE StrEnd(b, j + 1)

\* The index of the last digit of the digit run starting at j.
RECURSIVE IntEnd(_, _)
IntEnd(b, j) == IF j < Len(b) /\ IsDigit(b[j + 1]) THEN IntEnd(b, j + 1) ELSE j

\* The value starting at index i: [ok, v, next].
ScanValue(b, i) ==
  IF i > Len(b) THEN [ok |-> FALSE, v |-> JsonInt(0), next |-> i]
  ELSE IF b[i] = Ord("\"") THEN
    LET e == StrEnd(b, i + 1) IN
    IF e = 0 THEN [ok |-> FALSE, v |-> JsonInt(0), next |-> i]
    ELSE [ok |-> TRUE, v |-> JsonStr(SubSeq(b, i + 1, e - 1)), next |-> e + 1]
  ELSE IF IsDigit(b[i]) THEN
    LET e == IntEnd(b, i) IN
    IF b[i] = Ord("0") /\ e > i THEN [ok |-> FALSE, v |-> JsonInt(0), next |-> i]
    ELSE [ok |-> TRUE, v |-> JsonInt(DigitsValue(SubSeq(b, i, e))), next |-> e + 1]
  ELSE [ok |-> FALSE, v |-> JsonInt(0), next |-> i]

\* The members of an object from index i on, added to acc (a later member
\* replaces an earlier one of the same name).
RECURSIVE ParseMembers(_, _, _)
ParseMembers(b, i, acc) ==
  LET k == ScanValue(b, i) IN
  IF ~k.ok \/ k.v.type # "str" THEN Raise("JSONDecodeError")
  ELSE IF k.next > Len(b) \/ b[k.next] # Ord(":") THEN Raise("JSONDecodeError")
  ELSE
    LET m == ScanValue(b, k.next + 1)
        obj == [n \in DOMAIN acc \cup {k.v.val} |->
                  IF n = k.v.val THEN m.v ELSE acc[n]]
    IN IF ~m.ok \/ m.next > Len(b) THEN Raise("JSONDecodeError")
       ELSE IF b[m.next] = Ord(",") THEN ParseMembers(b, m.next + 1, obj)
       ELSE IF b[m.next] = Ord("}") /\ m.next = Len(b) THEN Return(JsonObj(obj))
       ELSE Raise("JSONDecodeError")

EmptyObj == [n \in {} |-> JsonInt(0)]

\* json.loads(payload) of a bytes object.
json_loads(b) ==
  IF ~IsAscii(b) THEN Raise("UnicodeDecodeError")
  ELSE IF Len(b) = 0 THEN Raise("JSONDecodeError")
  ELSE IF b[1] = Ord("{") THEN
    (IF Len(b) = 2 /\ b[2] = Ord("}") THEN Return(JsonObj(EmptyObj))
     ELSE ParseMembers(b, 2, EmptyObj))
  ELSE
    LET v == ScanValue(b, 1) IN
    IF v.ok /\ v.next = Len(b) + 1 THEN Return(v.v) ELSE Raise("JSONDecodeError")

\* data[key]: TypeError unless data is a dict, KeyError for a missing key.
\* (Indexing a str with a str is a TypeError as well.)
GetItem(data, key) ==
  IF data.type # "dict" THEN Raise("TypeError")
  ELSE IF key \notin DOMAIN data.val THEN Raise("KeyError")
  ELSE Return(data.val[key])

\* int(v) of a JSON value: an int is itself, a str of decimal digits is parsed.
IntOf(v) ==
  IF v.type = "int" THEN Return(v.val)
  ELSE IF v.type = "str" THEN
    (IF Len(v.val) > 0 /\ AllDigits(v.val) THEN Return(DigitsValue(v.val))
     ELSE Raise("ValueError"))
  ELSE Raise("TypeError")

(***************************************************************************)
(* The signed session token (core/auth.py).                                *)
(***************************************************************************)
\* os.getenv("APP_SECRET_KEY", "fallback-secret-please-change").encode()
_secret ==
  Bytes(<< "f", "a", "l", "l", "b", "a", "c", "k", "-", "s", "e", "c", "r", "e", "t",
           "-", "p", "l", "e", "a", "s", "e", "-", "c", "h", "a", "n", "g", "e" >>)

\* _make_token signing the encoded text in place of the payload bytes.
_make_token_signs_text(user_id, utcnow) ==
  LET exp == isoformat(utcnow + _SESSION_DAYS * SecondsPerDay)
      payload == json_dumps(user_id, exp)
      sig == hmac_hexdigest(_secret, urlsafe_b64encode(payload))
  IN urlsafe_b64encode(payload) \o << Ord(".") >> \o sig

_make_token(user_id, utcnow) ==
  LET exp == isoformat(utcnow + _SESSION_DAYS * SecondsPerDay)
      payload == json_dumps(user_id, exp)
      sig == hmac_hexdigest(_secret, payload)
  IN urlsafe_b64encode(payload) \o << Ord(".") >> \o sig

\* token.rsplit(".", 1)
rsplit(token) ==
  LET dots == {i \in 1..Len(token) : token[i] = Ord(".")} IN
  IF dots = {} THEN << token >>
  ELSE LET d == CHOOSE i \in dots : \A j \in dots : j <= i
       IN << SubSeq(token, 1, d - 1), SubSeq(token, d + 1, Len(token)) >>

KeyExp == Bytes(<< "e", "x", "p" >>)
KeyUid == Bytes(<< "u", "i", "d" >>)

\* The expiry test with the comparison the wrong way round.
is_expired_reversed(expiry, utcnow) ==
  IF expiry.aware THEN Raise("TypeError") ELSE Return(expiry.t > utcnow)

\* datetime.fromisoformat(data["exp"]) < datetime.utcnow(): comparing an
\* aware datetime with the naive utcnow() is a TypeError.
is_expired(expiry, utcnow) ==
  IF expiry.aware THEN Raise("TypeError") ELSE Return(expiry.t < utcnow)

\* The body of the try statement of _decode_token.
_decode_token_try(token, utcnow) ==
  LET \* return int(data["uid"])
      Uid(uid) == IF IsRaised(uid) THEN uid ELSE IntOf(uid.val)
      \* if datetime.fromisoformat(data["exp"]) < datetime.utcnow(): return None
      Tested(data, expired) ==
        IF IsRaised(expired) THEN expired
        ELSE IF expired.val THEN Return(None)
        ELSE Uid(GetItem(data, KeyUid))
      Parsed(data, expiry) ==
        IF IsRaised(expiry) THEN expiry
        ELSE Tested(data, is_expired(expiry.val, utcnow))
      Expiry(data, exp) ==
        IF IsRaised(exp) THEN exp ELSE Parsed(data, fromisoformat(exp.val))
      \* data = json.loads(payload)
      Loaded(data) ==
        IF IsRaised(data) THEN data ELSE Expiry(data.val, GetItem(data.val, KeyExp))
      \* if not hmac.compare_digest(sig, expected): return None
      Compared(payload, same) ==
        IF IsRaised(same) THEN same
        ELSE IF ~same.val THEN Return(None)
        ELSE Loaded(json_loads(payload))
      \* payload = base64.urlsafe_b64decode(encoded + "==")
      \* expected = hmac.new(_secret(), payload, hashlib.sha256).hexdigest()
      Decoded(decoded, sig) ==
        IF IsRaised(decoded) THEN decoded
        ELSE Compared(decoded.val,
                      compare_digest(sig, hmac_hexdigest(_secret, decoded.val)))
      \* encoded, sig = token.rsplit(".", 1)
      Split(parts) ==
        IF Len(parts) # 2 THEN Raise("ValueError")
        ELSE Decoded(urlsafe_b64decode(parts[1] \o << Ord("="), Ord("=") >>), parts[2])
  IN Split(rsplit(token))

\* _decode_token without its except clause.
_decode_token_unguarded(token, utcnow) == _decode_token_try(token, utcnow)

\* _decode_token: except Exception: return None
_decode_token(token, utcnow) ==
  LET Except(r) == IF IsRaised(r) THEN Return(None) ELSE r
  IN Except(_decode_token_try(token, utcnow))

(***************************************************************************)
(* Users (core/database.py) and email/password authentication.             *)
(***************************************************************************)
\* str.isspace() of a character: what str.strip() removes and \s matches.
IsSpace(c) ==
  \/ c = Ord(" ") \/ (c >= 9 /\ c <= 13) \/ (c >= 28 /\ c <= 31)
  \/ c \in {133, 160, 5760, 8232, 8233, 8239, 8287, 12288}
  \/ (c >= 8192 /\ c <= 8202)

\* str.strip()
strip(s) ==
  LET keep == {i \in 1..Len(s) : ~IsSpace(s[i])} IN
  IF keep = {} THEN << >>
  ELSE SubSeq(s, CHOOSE i \in keep : \A j \in keep : i <= j,
                 CHOOSE i \in keep : \A j \in keep : j <= i)

\* str.lower()
lower(s) ==
  [i \in 1..Len(s) |->
     IF s[i] >= Ord("A") /\ s[i] <= Ord("Z") THEN s[i] + (Ord("a") - Ord("A")) ELSE s[i]]

\* bcrypt with a fresh salt: only checkpw ever relates a hash to a password.
hash_password(plain) == [bcrypt |-> plain]
verify_password(plain, hashed) == hashed.bcrypt = plain

\* db.query(User).filter(User.email == email): the matching rows.
UsersByEmail(db, email) == {u \in db : u.email = email}
\* db.query(User).filter(User.id == user_id): the matching rows.
UsersById(db, user_id) == {u \in db : u.id = user_id}

\* register_user: [ok, db], db being the users table afterwards.  The new
\* row's id is the next value of the autoincrement primary key.
\* A mutant: the address is looked up as it was typed.
register_user_as_typed(db, email_in, password, name) ==
  LET email == lower(strip(email_in)) IN
  IF email = << >> \/ password = << >> \/ name = << >> THEN [ok |-> FALSE, db |-> db]
  ELSE IF Len(password) < 8 THEN [ok |-> FALSE, db |-> db]
  ELSE IF UsersByEmail(db, email_in) # {} THEN [ok |-> FALSE, db |-> db]
  ELSE [ok |-> TRUE,
        db |-> db \cup {[id |-> Cardinality(db) + 1, email |-> email,
                         password_hash |-> hash_password(password),
                         name |-> strip(name)]}]

register_user(db, email_in, password, name) ==
  LET email == lower(strip(email_in)) IN
  IF email = << >> \/ password = << >> \/ name = << >> THEN [ok |-> FALSE, db |-> db]
  ELSE IF Len(password) < 8 THEN [ok |-> FALSE, db |-> db]
  ELSE IF UsersByEmail(db, email) # {} THEN [ok |-> FALSE, db |-> db]
  ELSE [ok |-> TRUE,
        db |-> db \cup {[id |-> Cardinality(db) + 1, email |-> email,
                         password_hash |-> hash_password(password),
                         name |-> strip(name)]}]

\* login_user: the set holding the user logged in, empty on failure.  (No row
\* of this model lacks a password hash: Google sign-in is not modelled.)
login_user(db, email_in, password) ==
  LET email == lower(strip(email_in)) IN
  {u \in UsersByEmail(db, email) : verify_password(password, u.password_hash)}

(***************************************************************************)
(* Session state helpers (core/auth.py).  st.session_state and             *)
(* st.query_params are functions from the keys they hold.                  *)
(***************************************************************************)
\* d.pop(k, None) for every k of keys.
Pop(d, keys) == [k \in DOMAIN d \ keys |-> d[k]]

\* st.session_state.get("authenticated"), as a truth value.
IsAuthenticated(ss) == "authenticated" \in DOMAIN ss /\ ss["authenticated"]

set_session_user(ss, user) ==
  [k \in DOMAIN ss \cup {"authenticated", "user_id", "user_name", "user_email"} |->
     IF k = "authenticated" THEN TRUE
     ELSE IF k = "user_id" THEN user.id
     ELSE IF k = "user_name" THEN user.name
     ELSE IF k = "user_email" THEN user.email
     ELSE ss[k]]

set_session_param(qp, user_id, utcnow) ==
  [k \in DOMAIN qp \cup {_SESSION_PARAM} |->
     IF k = _SESSION_PARAM THEN _make_token(user_id, utcnow) ELSE qp[k]]

\* What a call leaves behind: the session state, the query parameters, the
\* exception it raised ("" if none), and the token it handed to _decode_token
\* with that call's outcome.
Outcome(ss, qp, raised, called, tok, out) ==
  [ss |-> ss, qp |-> qp, raised |-> raised, called |-> called, tok |-> tok, out |-> out]

\* restore_session_from_params with the test of the decoded user id inverted.
restore_session_inverted(ss, qp, db, utcnow) ==
  LET Restore(token, user_id) ==
        IF IsRaised(user_id) THEN Outcome(ss, qp, user_id.raised, TRUE, token, user_id)
        ELSE IF ~(user_id.val = None \/ user_id.val = 0) THEN
          Outcome(ss, Pop(qp, {_SESSION_PARAM}), "", TRUE, token, user_id)
        ELSE IF UsersById(db, user_id.val) = {} THEN
          Outcome(ss, qp, "", TRUE, token, user_id)
        ELSE
          Outcome(set_session_user(ss, CHOOSE u \in UsersById(db, user_id.val) : TRUE),
                  qp, "", TRUE, token, user_id)
  IN
  IF IsAuthenticated(ss) THEN Outcome(ss, qp, "", FALSE, << >>, Return(None))
  ELSE IF _SESSION_PARAM \notin DOMAIN qp \/ qp[_SESSION_PARAM] = << >> THEN
    Outcome(ss, qp, "", FALSE, << >>, Return(None))
  ELSE Restore(qp[_SESSION_PARAM], _decode_token(qp[_SESSION_PARAM], utcnow))

\* A mutant: the session is set from the token without looking for the row.
restore_session_unchecked(ss, qp, db, utcnow) ==
  LET Restore(token, user_id) ==
        IF IsRaised(user_id) THEN Outcome(ss, qp, user_id.raised, TRUE, token, user_id)
        ELSE IF user_id.val = None \/ user_id.val = 0 THEN
          Outcome(ss, Pop(qp, {_SESSION_PARAM}), "", TRUE, token, user_id)
        ELSE
          Outcome(set_session_user(ss, [id |-> user_id.val, name |-> << >>, email |-> << >>]),
                  qp, "", TRUE, token, user_id)
  IN
  IF IsAuthenticated(ss) THEN Outcome(ss, qp, "", FALSE, << >>, Return(None))
  ELSE IF _SESSION_PARAM \notin DOMAIN qp \/ qp[_SESSION_PARAM] = << >> THEN
    Outcome(ss, qp, "", FALSE, << >>, Return(None))
  ELSE Restore(qp[_SESSION_PARAM], _decode_token(qp[_SESSION_PARAM], utcnow))

restore_session_from_params(ss, qp, db, utcnow) ==
  LET Restore(token, user_id) ==
        IF IsRaised(user_id) THEN Outcome(ss, qp, user_id.raised, TRUE, token, user_id)
        ELSE IF user_id.val = None \/ user_id.val = 0 THEN
          Outcome(ss, Pop(qp, {_SESSION_PARAM}), "", TRUE, token, user_id)
        ELSE IF UsersById(db, user_id.val) = {} THEN
          Outcome(ss, qp, "", TRUE, token, user_id)
        ELSE
          Outcome(set_session_user(ss, CHOOSE u \in UsersById(db, user_id.val) : TRUE),
                  qp, "", TRUE, token, user_id)
  IN
  IF IsAuthenticated(ss) THEN Outcome(ss, qp, "", FALSE, << >>, Return(None))
  ELSE IF _SESSION_PARAM \notin DOMAIN qp \/ qp[_SESSION_PARAM] = << >> THEN
    Outcome(ss, qp, "", FALSE, << >>, Return(None))
  ELSE Restore(qp[_SESSION_PARAM], _decode_token(qp[_SESSION_PARAM], utcnow))

LogoutKeys ==
  {"authenticated", "user_id", "user_name", "user_email", "journal_content",
   "current_word_count", "selected_history_date", "oauth_state",
   "narrative_observation", "contextual_insight"}

\* The session keys that start with "balloon_shown_".
BalloonKeys(ss) == {k \in DOMAIN ss : k \in {"balloon_shown_today"}}

\* logout: [ss, qp] afterwards.
logout(ss, qp) ==
  [ss |-> Pop(Pop(ss, LogoutKeys), BalloonKeys(Pop(ss, LogoutKeys))),
   qp |-> Pop(qp, {_SESSION_PARAM})]

\* require_auth without the re-embedding of the token.
require_auth_no_embed(ss, qp, db, utcnow) ==
  LET Restored(o) == [switched |-> o.raised = "" /\ ~IsAuthenticated(o.ss), o |-> o]
  IN
  IF IsAuthenticated(ss) THEN
    [switched |-> FALSE, o |-> Outcome(ss, qp, "", FALSE, << >>, Return(None))]
  ELSE Restored(restore_session_from_params(ss, qp, db, utcnow))

\* require_auth without the switch to the login page.
require_auth_no_switch(ss, qp, db, utcnow) ==
  IF IsAuthenticated(ss) THEN
    [switched |-> FALSE,
     o |-> Outcome(ss,
                   IF _SESSION_PARAM \notin DOMAIN qp
                   THEN set_session_param(qp, ss["user_id"], utcnow) ELSE qp,
                   "", FALSE, << >>, Return(None))]
  ELSE
    [switched |-> FALSE, o |-> restore_session_from_params(ss, qp, db, utcnow)]

\* require_auth: the outcome, with switched = TRUE when it ends in
\* st.switch_page("app.py").
require_auth(ss, qp, db, utcnow) ==
  LET Restored(o) == [switched |-> o.raised = "" /\ ~IsAuthenticated(o.ss), o |-> o]
  IN
  IF IsAuthenticated(ss) THEN
    [switched |-> FALSE,
     o |-> Outcome(ss,
                   IF _SESSION_PARAM \notin DOMAIN qp
                   THEN set_session_param(qp, ss["user_id"], utcnow) ELSE qp,
                   "", FALSE, << >>, Return(None))]
  ELSE Restored(restore_session_from_params(ss, qp, db, utcnow))

(***************************************************************************)
(* Inputs.                                                                 *)
(***************************************************************************)
SessionSeconds == _SESSION_DAYS * SecondsPerDay

\* The instants the clock takes: half session lifetimes after the epoch.
ClockStep == SessionSeconds \div 2
Instants == {k * ClockStep : k \in 0..MaxPeriods}

EmailInputs ==
  { Bytes(<< " ", "A", "@", "x", " " >>), Bytes(<< "b", "@", "x" >>), << >> }

PasswordInputs ==
  { << >>, Bytes(<< "s", "e", "c", "r", "e", "t", "7" >>),
    Bytes(<< "p", "a", "s", "s", "w", "o", "r", "d" >>) }

NameInputs == { << >>, Bytes(<< "A", "l" >>) }

\* A key other than the server's.
WrongKey == Bytes(<< "g", "u", "e", "s", "s" >>)

\* A token over an arbitrary payload, signed with an arbitrary key.
SignedToken(payload, key) ==
  urlsafe_b64encode(payload) \o << Ord(".") >> \o hmac_hexdigest(key, payload)

Obj(members) == << Ord("{") >> \o members \o << Ord("}") >>
UidMember(v) == Bytes(<< "\"", "u", "i", "d", "\"", ":" >>) \o v
ExpMember(v) == Bytes(<< "\"", "e", "x", "p", "\"", ":" >>) \o v
Quoted(v) == << Ord("\"") >> \o v \o << Ord("\"") >>
Comma == << Ord(",") >>

\* Payloads that _make_token does not write, with an expiry (where they have
\* one) a session lifetime after the given instant.
OddPayloads(utcnow) ==
  LET later == Quoted(isoformat(utcnow + SessionSeconds))
      one == << Ord("1") >>
  IN
  { Bytes(<< "n", "o", " ", "j", "s", "o", "n" >>),
    << Ord("1"), Ord("2") >>,
    Obj(UidMember(one)),
    Obj(UidMember(one) \o Comma \o ExpMember(Quoted(Bytes(<< "z", "z" >>)))),
    Obj(UidMember(one) \o Comma \o ExpMember(<< Ord("5") >>)),
    Obj(UidMember(one) \o Comma
        \o ExpMember(Quoted(isoformat(utcnow + SessionSeconds)
                            \o Bytes(<< "+", "0", "0", ":", "0", "0" >>)))),
    Obj(UidMember(Quoted(Bytes(<< "x" >>))) \o Comma \o ExpMember(later)),
    Obj(UidMember(<< Ord("0") >>) \o Comma \o ExpMember(later)),
    Obj(UidMember(<< Ord("9") >>) \o Comma \o ExpMember(later)),
    Obj(ExpMember(later) \o Comma \o UidMember(one)) }

\* Payloads of the shape _make_token writes, with an expiry just before, at
\* and just after the given instant.
EdgePayloads(utcnow) ==
  { json_dumps(1, isoformat(e)) : e \in {utcnow - 1, utcnow, utcnow + 1} \cap Nat }

\* Strings that are no token at all.
GarbageTokens == { << >>, Bytes(<< "a", "b", "c" >>), << Ord(".") >>, << NonAscii >> }

TamperChars == { Ord("0"), Ord("f"), Ord("."), Ord("="), Ord("!"), NonAscii }
JunkChars == { Ord("!"), 10, Ord(" ") }

InsertAt(s, i, c) == SubSeq(s, 1, i - 1) \o << c >> \o SubSeq(s, i, Len(s))

\* The index of the separator of an issued token.
SepIndex(t) == Len(t) - DigestHexLen

(***************************************************************************)
(* The import pipeline (core/importer.py).  A str is a sequence of code    *)
(* points, a calendar date a triple <<year, month, day>>.                  *)
(***************************************************************************)
\* Python's None where an Optional[date] is expected.
NoDate == << >>

\* datetime.date(year, month, day)
date(year, month, day) ==
  IF /\ year >= 1 /\ year <= 9999
     /\ month >= 1 /\ month <= 12
     /\ day >= 1 /\ day <= DaysInMonth(year, month)
  THEN Return(<< year, month, day >>)
  ELSE Raise("ValueError")

\* date.today(), the server's local time being UTC.
date_today(utcnow) == DateOfDay(utcnow \div SecondsPerDay, EpochYear, 1)

\* date.isoformat()
date_isoformat(d) ==
  Digits(d[1], 4) \o << Ord("-") >> \o Digits(d[2], 2) \o << Ord("-") >> \o Digits(d[3], 2)

\* The first index from j on that holds no white space (Len(s) + 1 if none).
SkipSpaces(s, j) ==
  CHOOSE k \in j..(Len(s) + 1) :
    /\ k = Len(s) + 1 \/ ~IsSpace(s[k])
    /\ \A x \in j..(k - 1) : IsSpace(s[x])

NoMatch == [start |-> 0, stop |-> 0, groups |-> << >>]
Match(i, j, groups) == [start |-> i, stop |-> j, groups |-> groups]

\* The leftmost of the matches found at the positions of s from pos on
\* (re.search, and the scan of findall and split).
Leftmost(s, pos, At(_, _)) ==
  LET hits == {i \in pos..Len(s) : At(s, i).start # 0}
  IN IF hits = {} THEN NoMatch
     ELSE At(s, CHOOSE i \in hits : \A j \in hits : i <= j)

\* _ISO_DATE_RE = (\d{4})[-_](\d{2})[-_](\d{2}), matched at position i.
_ISO_DATE_RE_match(s, i) ==
  LET IsSep(c) == c = Ord("-") \/ c = Ord("_")
  IN IF /\ i + 9 <= Len(s)
        /\ AllDigits(SubSeq(s, i, i + 3)) /\ IsSep(s[i + 4])
        /\ AllDigits(SubSeq(s, i + 5, i + 6)) /\ IsSep(s[i + 7])
        /\ AllDigits(SubSeq(s, i + 8, i + 9))
     THEN Match(i, i + 10, << SubSeq(s, i, i + 3), SubSeq(s, i + 5, i + 6),
                             SubSeq(s, i + 8, i + 9) >>)
     ELSE NoMatch

\* The keys of _MONTH_MAP; the value of a key is its index.
_MONTH_MAP ==
  << Bytes(<< "j", "a", "n", "u", "a", "r", "y" >>),
     Bytes(<< "f", "e", "b", "r", "u", "a", "r", "y" >>),
     Bytes(<< "m", "a", "r", "c", "h" >>),
     Bytes(<< "a", "p", "r", "i", "l" >>),
     Bytes(<< "m", "a", "y" >>),
     Bytes(<< "j", "u", "n", "e" >>),
     Bytes(<< "j", "u", "l", "y" >>),
     Bytes(<< "a", "u", "g", "u", "s", "t" >>),
     Bytes(<< "s", "e", "p", "t", "e", "m", "b", "e", "r" >>),
     Bytes(<< "o", "c", "t", "o", "b", "e", "r" >>),
     Bytes(<< "n", "o", "v", "e", "m", "b", "e", "r" >>),
     Bytes(<< "d", "e", "c", "e", "m", "b", "e", "r" >>) >>

\* U+017F, LATIN SMALL LETTER LONG S: lower() leaves it as it is, and
\* re.IGNORECASE lets it match the letter s.
LongS == 383

\* re.IGNORECASE on a str pattern: whether character c matches the (lower
\* case) letter p of the pattern.  Besides the two cases of the letter, the
\* characters U+017F (s), U+0130 and U+0131 (i) and U+212A (k) match.
IgnoreCaseEq(c, p) ==
  \/ lower(<< c >>)[1] = p
  \/ p = Ord("s") /\ c = LongS
  \/ p = Ord("i") /\ c \in {304, 305}
  \/ p = Ord("k") /\ c = 8490

\* _NATURAL_DATE_RE = (January|...|December)\s+(\d{1,2}),?\s+(\d{4}) with
\* re.IGNORECASE, matched at position i.  The groups are the texts matched.
_NATURAL_DATE_RE_match(s, i) ==
  LET Has(k) == k <= Len(s)
      Named(m) ==
        /\ i + Len(_MONTH_MAP[m]) - 1 <= Len(s)
        /\ \A x \in 1..Len(_MONTH_MAP[m]) : IgnoreCaseEq(s[i + x - 1], _MONTH_MAP[m][x])
      Year(name, day, q) ==
        IF Has(q + 3) /\ AllDigits(SubSeq(s, q, q + 3))
        THEN Match(i, q + 4, << name, day, SubSeq(s, q, q + 3) >>)
        ELSE NoMatch
      Gap(name, day, p) ==
        IF Has(p) /\ IsSpace(s[p]) THEN Year(name, day, SkipSpaces(s, p)) ELSE NoMatch
      AfterDay(name, day, p) ==
        Gap(name, day, IF Has(p) /\ s[p] = Ord(",") THEN p + 1 ELSE p)
      Day(name, k) ==
        IF ~(Has(k) /\ IsDigit(s[k])) THEN NoMatch
        ELSE IF Has(k + 1) /\ IsDigit(s[k + 1])
             THEN AfterDay(name, SubSeq(s, k, k + 1), k + 2)
             ELSE AfterDay(name, SubSeq(s, k, k), k + 1)
      Month(j) ==
        IF Has(j) /\ IsSpace(s[j])
        THEN Day(SubSeq(s, i, j - 1), SkipSpaces(s, j)) ELSE NoMatch
      Names(ms) ==
        IF ms = {} THEN NoMatch ELSE Month(i + Len(_MONTH_MAP[CHOOSE m \in ms : TRUE]))
  IN Names({m \in 1..Len(_MONTH_MAP) : Named(m)})

\* _MONTH_MAP[key]
_MONTH_MAP_getitem(key) ==
  LET Found(ms) == IF ms = {} THEN Raise("KeyError") ELSE Return(CHOOSE m \in ms : TRUE)
  IN Found({m \in 1..Len(_MONTH_MAP) : _MONTH_MAP[m] = key})

\* The second grammar alone: lines 33-42.
_parse_natural(s) ==
  LET Built(d) == IF IsRaised(d) THEN Return(NoDate) ELSE d
      Looked(m, month) ==
        IF IsRaised(month) THEN month
        ELSE Built(date(DigitsValue(m.groups[3]), month.val, DigitsValue(m.groups[2])))
      Searched(m) ==
        IF m.start = 0 THEN Return(NoDate)
        ELSE Looked(m, _MONTH_MAP_getitem(lower(m.groups[1])))
  IN Searched(Leftmost(s, 1, _NATURAL_DATE_RE_match))

_parse_date_from_string(s) ==
  LET Built(d) == IF IsRaised(d) THEN _parse_natural(s) ELSE d
      Searched(m) ==
        IF m.start = 0 THEN _parse_natural(s)
        ELSE Built(date(DigitsValue(m.groups[1]), DigitsValue(m.groups[2]),
                        DigitsValue(m.groups[3])))
  IN Searched(Leftmost(s, 1, _ISO_DATE_RE_match))

\* _HEADER_RE = ={3,}\s*\S.*?\s*={3,}, matched at position i.  The first
\* run of "=" gives back characters from the right until the rest matches;
\* ".*?" takes as few characters as will do, and never a line feed.
_HEADER_RE_match(s, i) ==
  LET Has(k) == k <= Len(s)
      IsEq(k) == Has(k) /\ s[k] = Ord("=")
      RunEnd(j) == CHOOSE e \in j..(Len(s) + 1) : ~IsEq(e) /\ \A x \in j..(e - 1) : IsEq(x)
      Closes(r) == IsEq(r) /\ IsEq(r + 1) /\ IsEq(r + 2)
      Lazy(k) == {t \in 0..(Len(s) - k) :
                    /\ \A x \in (k + 1)..(k + t) : s[x] # 10
                    /\ Closes(SkipSpaces(s, k + 1 + t))}
      Least(ts) == CHOOSE t \in ts : \A u \in ts : t <= u
      Opens(a) == Has(SkipSpaces(s, i + a)) /\ Lazy(SkipSpaces(s, i + a)) # {}
      Close(k) == Match(i, RunEnd(SkipSpaces(s, k + 1 + Least(Lazy(k)))), << >>)
      Greedy(as) ==
        IF as = {} THEN NoMatch
        ELSE Close(SkipSpaces(s, i + (CHOOSE a \in as : \A b \in as : b <= a)))
  IN Greedy({a \in 3..(RunEnd(i) - i) : Opens(a)})

\* The matches of _HEADER_RE in s from pos on, left to right, none
\* overlapping another.
RECURSIVE _HEADER_RE_finditer(_, _)
_HEADER_RE_finditer(s, pos) ==
  LET Rest(m) == IF m.start = 0 THEN << >>
                 ELSE << m >> \o _HEADER_RE_finditer(s, m.stop)
  IN Rest(Leftmost(s, pos, _HEADER_RE_match))

\* _HEADER_RE.findall(text)
_HEADER_RE_findall(text) ==
  LET Texts(ms) == [n \in 1..Len(ms) |-> SubSeq(text, ms[n].start, ms[n].stop - 1)]
  IN Texts(_HEADER_RE_finditer(text, 1))

\* _HEADER_RE.split(text)
_HEADER_RE_split(text) ==
  LET Parts(ms) ==
        [n \in 1..(Len(ms) + 1) |->
           SubSeq(text, IF n = 1 THEN 1 ELSE ms[n - 1].stop,
                        IF n > Len(ms) THEN Len(text) ELSE ms[n].start - 1)]
  IN Parts(_HEADER_RE_finditer(text, 1))

\* str.endswith
endswith(s, suffix) ==
  Len(s) >= Len(suffix) /\ SubSeq(s, Len(s) - Len(suffix) + 1, Len(s)) = suffix

\* str.startswith
startswith(s, prefix) == Len(s) >= Len(prefix) /\ SubSeq(s, 1, Len(prefix)) = prefix

DotZip == Bytes(<< ".", "z", "i", "p" >>)

detect_format(filename, content) ==
  LET Dated(d) == IF IsRaised(d) THEN d
                  ELSE IF d.val # NoDate THEN Return("dated_file")
                  ELSE Return("undated_file")
  IN IF endswith(lower(filename), DotZip) THEN Return("zip_750words")
     ELSE IF Leftmost(content, 1, _HEADER_RE_match).start # 0 THEN Return("single_750words")
     ELSE Dated(_parse_date_from_string(filename))

(***************************************************************************)
(* Text decoding.                                                          *)
(***************************************************************************)
\* bytes.decode("utf-8"): the code points, or UnicodeDecodeError.  A
\* character takes one to four bytes: a leading byte and continuation bytes
\* (10xxxxxx); overlong forms, surrogates and code points past U+10FFFF are
\* errors.  The characters start where the bytes are no continuation bytes.
decode_utf8(raw) ==
  LET Cont(k) == k <= Len(raw) /\ raw[k] >= 128 /\ raw[k] <= 191
      Low(k) == raw[k] % 64
      \* the bytes the character starting at k takes (0: no character starts so)
      Size(k) ==
        IF raw[k] < 128 THEN 1
        ELSE IF raw[k] >= 194 /\ raw[k] <= 223 /\ Cont(k + 1) THEN 2
        ELSE IF /\ raw[k] >= 224 /\ raw[k] <= 239 /\ Cont(k + 1) /\ Cont(k + 2)
                /\ (raw[k] = 224 => raw[k + 1] >= 160)
                /\ (raw[k] = 237 => raw[k + 1] <= 159) THEN 3
        ELSE IF /\ raw[k] >= 240 /\ raw[k] <= 244
                /\ Cont(k + 1) /\ Cont(k + 2) /\ Cont(k + 3)
                /\ (raw[k] = 240 => raw[k + 1] >= 144)
                /\ (raw[k] = 244 => raw[k + 1] <= 143) THEN 4
        ELSE 0
      Point(k, n) ==
        IF n = 1 THEN raw[k]
        ELSE IF n = 2 THEN (raw[k] % 32) * 64 + Low(k + 1)
        ELSE IF n = 3 THEN ((raw[k] % 16) * 64 + Low(k + 1)) * 64 + Low(k + 2)
        ELSE (((raw[k] % 8) * 64 + Low(k + 1)) * 64 + Low(k + 2)) * 64 + Low(k + 3)
      Points == [k \in 1..Len(raw) |-> IF Cont(k) \/ Size(k) = 0 THEN -1 ELSE Point(k, Size(k))]
      Decoded(starts) ==
        IF /\ \A k \in starts : Size(k) # 0
           /\ \A k \in 1..Len(raw) : Cont(k) => \E j \in starts : j < k /\ k < j + Size(j)
        THEN Return(SelectSeq(Points, LAMBDA c : c # -1))
        ELSE Raise("UnicodeDecodeError")
  IN IF \A k \in 1..Len(raw) : raw[k] < 128 THEN Return(raw)
     ELSE Decoded({k \in 1..Len(raw) : ~Cont(k)})

\* The byte order mark, as bytes and as a character.
BOM == << 239, 187, 191 >>

\* bytes.decode("utf-8-sig"): UTF-8 after a leading byte order mark, if any.
decode_utf8_sig(raw) ==
  IF startswith(raw, BOM) THEN decode_utf8(SubSeq(raw, 4, Len(raw))) ELSE decode_utf8(raw)

\* bytes.decode("latin-1"): every byte is the code point of that number.
decode_latin1(raw) == Return(raw)

\* A mutant: latin-1 is tried first.
_decode_latin1_first(raw) == decode_latin1(raw).val

\* _decode: the first of the three codecs that does not fail.  latin-1
\* never fails, so the decoding with errors="replace" is never reached.
_decode(raw) ==
  LET Third(r) == r.val
      Second(r) == IF IsRaised(r) THEN Third(decode_latin1(raw)) ELSE r.val
      First(r) == IF IsRaised(r) THEN Second(decode_utf8_sig(raw)) ELSE r.val
  IN First(decode_utf8(raw))

(***************************************************************************)
(* Uploaded files.  The bytes of an upload are either a zip container,     *)
(* known by the members of its directory (for each its name, its data and  *)
(* the exception, if any, that reading it raises), or bytes that are no    *)
(* container.                                                              *)
(***************************************************************************)
RawFile(raw) == [container |-> FALSE, raw |-> raw, members |-> << >>]
ZipFile(members) == [container |-> TRUE, raw |-> << >>, members |-> members]
Member(name, data, read) == [name |-> name, data |-> data, read |-> read]

\* zf.read(name): the data of the last member of that name, unless reading
\* it fails (BadZipFile for a bad checksum or header, RuntimeError for an
\* encrypted member).
zf_read(members, name) ==
  LET Last(ns) == members[CHOOSE n \in ns : \A k \in ns : k <= n]
      Got(m) == IF m.read = "" THEN Return(m.data) ELSE Raise(m.read)
  IN Got(Last({n \in 1..Len(members) : members[n].name = name}))

\* An import warning: its text, and what the text names.
Warning(msg, arg) == [msg |-> msg, arg |-> arg]

ParsedEntry(d, content) == [date |-> d, content |-> content]

\* The lists of a parser at work, and the exception that ended the work.
Lists(raised, entries, warnings) ==
  [raised |-> raised, entries |-> entries, warnings |-> warnings]

Result(entries, warnings) == Return([entries |-> entries, warnings |-> warnings])

Slash == Bytes(<< "/" >>)
MacOSX == Bytes(<< "_", "_", "M", "A", "C", "O", "S", "X" >>)

\* The loop of parse_zip_750words from member i on.
RECURSIVE parse_zip_members(_, _, _, _)
parse_zip_members(members, i, entries, warnings) ==
  LET Go(e, w) == parse_zip_members(members, i + 1, e, w)
      Read(d, raw) ==
        IF IsRaised(raw) THEN Lists(raw.raised, entries, warnings)
        ELSE Go(Append(entries, ParsedEntry(d, strip(_decode(raw.val)))), warnings)
      Dated(name, d) ==
        IF IsRaised(d) THEN Lists(d.raised, entries, warnings)
        ELSE IF d.val = NoDate
        THEN Go(entries,
                Append(warnings,
                       Warning("Could not parse date from filename: {name} - skipped.", name)))
        ELSE Read(d.val, zf_read(members, name))
      Named(name) ==
        IF endswith(name, Slash) \/ startswith(name, MacOSX) THEN Go(entries, warnings)
        ELSE Dated(name, _parse_date_from_string(name))
  IN IF i > Len(members) THEN Lists("", entries, warnings)
     ELSE Named(members[i].name)

parse_zip_750words(file_bytes) ==
  LET Caught(r) ==
        IF r.raised = "" THEN Result(r.entries, r.warnings)
        ELSE IF r.raised = "BadZipFile"
        THEN Result(r.entries, Append(r.warnings, Warning("Invalid zip file: {exc}", << >>)))
        ELSE Raise(r.raised)
  IN IF ~file_bytes.container
     THEN Result(<< >>, << Warning("Invalid zip file: {exc}", << >>) >>)
     ELSE Caught(parse_zip_members(file_bytes.members, 1, << >>, << >>))

\* The loop of parse_single_750words from header n on.
RECURSIVE parse_sections(_, _, _, _, _)
parse_sections(headers, contents, n, entries, warnings) ==
  LET Go(e, w) == parse_sections(headers, contents, n + 1, e, w)
      Dated(d) ==
        IF IsRaised(d) THEN Lists(d.raised, entries, warnings)
        ELSE IF d.val = NoDate
        THEN Go(entries,
                Append(warnings,
                       Warning("Could not parse date from header '{header}' - skipped.",
                               strip(headers[n]))))
        ELSE Go(Append(entries, ParsedEntry(d.val, strip(contents[n]))), warnings)
  IN IF n > Len(headers) \/ n > Len(contents) THEN Lists("", entries, warnings)
     ELSE Dated(_parse_date_from_string(headers[n]))

\* A mutant: the labels are paired with the parts from the first on.
parse_single_pairs_lead(text) ==
  LET Done(r) == IF r.raised = "" THEN Result(r.entries, r.warnings) ELSE Raise(r.raised)
      Split(headers, parts) ==
        IF headers = << >>
        THEN Result(<< >>, << Warning("No date headers found - use 'dated file' import instead.",
                                      << >>) >>)
        ELSE Done(parse_sections(headers, parts, 1, << >>, << >>))
  IN Split(_HEADER_RE_findall(text), _HEADER_RE_split(text))

\* A mutant: of the sections of one date only the first is kept.
parse_single_first_of_date(text) ==
  LET Pick(es, ks) == [n \in 1..Len(ks) |-> es[ks[n]]]
      First(es) ==
        Pick(es, SelectSeq([k \in 1..Len(es) |-> k],
                           LAMBDA k : \A j \in 1..(k - 1) : es[j].date # es[k].date))
      Done(r) == IF r.raised = "" THEN Result(First(r.entries), r.warnings) ELSE Raise(r.raised)
      Split(headers, parts) ==
        IF headers = << >>
        THEN Result(<< >>, << Warning("No date headers found - use 'dated file' import instead.",
                                      << >>) >>)
        ELSE Done(parse_sections(headers, Tail(parts), 1, << >>, << >>))
  IN Split(_HEADER_RE_findall(text), _HEADER_RE_split(text))

parse_single_750words(text) ==
  LET Done(r) == IF r.raised = "" THEN Result(r.entries, r.warnings) ELSE Raise(r.raised)
      Split(headers, parts) ==
        IF headers = << >>
        THEN Result(<< >>, << Warning("No date headers found - use 'dated file' import instead.",
                                      << >>) >>)
        ELSE Done(parse_sections(headers, Tail(parts), 1, << >>, << >>))
  IN Split(_HEADER_RE_findall(text), _HEADER_RE_split(text))

parse_dated_file(filename, file_bytes) ==
  LET Dated(d) ==
        IF IsRaised(d) THEN d
        ELSE IF d.val = NoDate
        THEN Result(<< >>, << Warning("Could not parse date from filename: {filename}",
                                      filename) >>)
        ELSE Result(<< ParsedEntry(d.val, strip(_decode(file_bytes.raw))) >>, << >>)
  IN Dated(_parse_date_from_string(filename))

FallbackWarning(today) ==
  Warning("No date found in filename - imported as today ({today}). Edit the entry date if needed.",
          date_isoformat(today))

\* A mutant: today's date is applied without a word.
parse_undated_silent(file_bytes, today) ==
  Result(<< ParsedEntry(today, strip(_decode(file_bytes.raw))) >>, << >>)

\* A mutant: the date is looked for in the content first.
parse_undated_reads_content(file_bytes, today) ==
  LET Dated(text, d) ==
        IF IsRaised(d) \/ d.val = NoDate
        THEN Result(<< ParsedEntry(today, strip(text)) >>, << FallbackWarning(today) >>)
        ELSE Result(<< ParsedEntry(d.val, strip(text)) >>, << FallbackWarning(today) >>)
      Decoded(text) == Dated(text, _parse_date_from_string(text))
  IN Decoded(_decode(file_bytes.raw))

parse_undated_file(file_bytes, today) ==
  Result(<< ParsedEntry(today, strip(_decode(file_bytes.raw))) >>, << FallbackWarning(today) >>)

\* parse_upload at work: the shape detect_format found (or the exception it
\* raised) and the outcome.
parse_upload_steps(filename, file_bytes, today) ==
  LET Parse(content_str, fmt) ==
        [fmt |-> fmt,
         out |-> IF IsRaised(fmt) THEN fmt
                 ELSE IF fmt.val = "zip_750words" THEN parse_zip_750words(file_bytes)
                 ELSE IF fmt.val = "single_750words" THEN parse_single_750words(content_str)
                 ELSE IF fmt.val = "dated_file" THEN parse_dated_file(filename, file_bytes)
                 ELSE parse_undated_file(file_bytes, today)]
      Decoded(content_str) == Parse(content_str, detect_format(filename, content_str))
  IN Decoded(IF ~endswith(lower(filename), DotZip) THEN _decode(file_bytes.raw) ELSE << >>)

parse_upload(filename, file_bytes, today) == parse_upload_steps(filename, file_bytes, today).out

(***************************************************************************)
(* The import page (pages/4_Import.py) and the journal_entries table.      *)
(***************************************************************************)
\* The uploader holds no file; nothing was parsed.
NoUpload == [has |-> FALSE, name |-> << >>, file |-> RawFile(<< >>)]
NotParsed == [done |-> FALSE, today |-> NoDate, fmt |-> Return(""), out |-> Result(<< >>, << >>)]

Sessions == 1..MaxSessions

(***************************************************************************)
(* The journal_entries table (core/database.py) and the two handlers that  *)
(* write to it: the save button of the journal page (pages/1_Journal.py)   *)
(* and the import button (pages/4_Import.py).  A row is its id, user_id,   *)
(* date and content, the id numbering the rows of one user and date in the *)
(* order of their insertion (the order of the other rows is not kept).  A  *)
(* handler works through a database session of its own, made with          *)
(* autoflush=False: what it adds or changes reaches the table when it      *)
(* commits.                                                                *)
(***************************************************************************)
batch_size == 10

JournalEntry(id, user_id, d, content) ==
  [id |-> id, user_id |-> user_id, date |-> d, content |-> content]

\* db.query(JournalEntry).filter(user_id == ..., date == ...).first(): the
\* rows found (none, or the one of the lowest id).
query_first(table, user_id, d) ==
  LET First(found) == {r \in found : \A q \in found : r.id <= q.id}
  IN First({r \in table : r.user_id = user_id /\ r.date = d})

\* The row found is given another content: the change waits in the database
\* session for the commit.
Changed(found, content) ==
  LET Of(r) == [id |-> r.id, user_id |-> r.user_id, date |-> r.date, content |-> content]
  IN Of(CHOOSE r \in found : TRUE)

\* The row is the one that a change names.
Names(c, r) == c.id = r.id /\ c.user_id = r.user_id /\ c.date = r.date

\* A mutant: the table takes every row.
commit_unconstrained(table, user_id, new, changed) ==
  [ok |-> TRUE,
   table |->
     {IF \E n \in 1..Len(changed) : Names(changed[n], r)
      THEN [r EXCEPT !.content =
              changed[CHOOSE n \in 1..Len(changed) :
                        /\ Names(changed[n], r)
                        /\ \A k \in (n + 1)..Len(changed) : ~Names(changed[k], r)].content]
      ELSE r : r \in table}
     \cup {JournalEntry(Cardinality({r \in table : r.user_id = user_id /\ r.date = new[n].date})
                          + Cardinality({k \in 1..n : new[k].date = new[n].date}),
                        user_id, new[n].date, new[n].content) :
             n \in 1..Len(new)}]

\* db.commit(): the rows added are inserted and the rows changed are updated,
\* all or none: uq_user_date lets no second row of a user and date in, and
\* the IntegrityError undoes the transaction.
commit(table, user_id, new, changed) ==
  IF \E n \in 1..Len(new) :
       \/ \E r \in table : r.user_id = user_id /\ r.date = new[n].date
       \/ \E k \in 1..Len(new) : k # n /\ new[k].date = new[n].date
  THEN [ok |-> FALSE, table |-> table]
  ELSE commit_unconstrained(table, user_id, new, changed)

\* A handler at work: the user of its browser session, what its database
\* session holds to be inserted (new) and updated (changed), and for an
\* import the entries, the one to take next (i), the first of the batch
\* (start), their number (total), the policy and the counters.  held says
\* whether the table, when the button was clicked, held a row of the user for
\* every date of the entries.
Run(op, user_id, policy, items, held) ==
  [op |-> op, user_id |-> user_id, policy |-> policy, items |-> items, total |-> Len(items),
   i |-> 1, start |-> 1, new |-> << >>, changed |-> << >>,
   imported |-> 0, skipped |-> 0, errors |-> 0, held |-> held]

\* A mutant: "Skip existing" overwrites.
import_item_overwrites(table, run) ==
  LET item == run.items[run.i]
      Existing(found) ==
        IF found # {}
        THEN [run EXCEPT !.changed = Append(@, Changed(found, item.content)),
                         !.imported = @ + 1, !.i = @ + 1]
        ELSE [run EXCEPT !.new = Append(@, item), !.imported = @ + 1, !.i = @ + 1]
  IN Existing(query_first(table, run.user_id, item.date))

\* A mutant: the row is looked up by its date alone.
import_item_of_any_user(table, run) ==
  LET item == run.items[run.i]
      Existing(found) ==
        IF found # {}
        THEN IF run.policy = "Skip existing"
             THEN [run EXCEPT !.skipped = @ + 1, !.i = @ + 1]
             ELSE [run EXCEPT !.changed = Append(@, Changed(found, item.content)),
                              !.imported = @ + 1, !.i = @ + 1]
        ELSE [run EXCEPT !.new = Append(@, item), !.imported = @ + 1, !.i = @ + 1]
  IN Existing({r \in table : r.date = item.date})

\* pages/4_Import.py, lines 86-123: one entry of the batch.
import_item(table, run) ==
  LET item == run.items[run.i]
      Existing(found) ==
        IF found # {}
        THEN IF run.policy = "Skip existing"
             THEN [run EXCEPT !.skipped = @ + 1, !.i = @ + 1]
             ELSE [run EXCEPT !.changed = Append(@, Changed(found, item.content)),
                              !.imported = @ + 1, !.i = @ + 1]
        ELSE [run EXCEPT !.new = Append(@, item), !.imported = @ + 1, !.i = @ + 1]
  IN Existing(query_first(table, run.user_id, item.date))

\* A mutant: a failed commit ends the run.
import_commit_gives_up(run, done) ==
  LET batch == run.i - run.start
      After(r) ==
        IF run.i > run.total \/ ~done.ok
        THEN [r EXCEPT !.new = << >>, !.changed = << >>, !.start = run.i, !.op = "done",
                       !.items = << >>, !.user_id = None]
        ELSE [r EXCEPT !.new = << >>, !.changed = << >>, !.start = run.i]
  IN IF done.ok THEN After(run)
     ELSE After([run EXCEPT !.errors = @ + batch, !.imported = @ - batch])

\* pages/4_Import.py, lines 130-136: the batch is committed.
import_commit(run, done) ==
  LET batch == run.i - run.start
      After(r) ==
        IF run.i > run.total
        THEN [r EXCEPT !.new = << >>, !.changed = << >>, !.start = run.i, !.op = "done",
                       !.items = << >>, !.user_id = None]
        ELSE [r EXCEPT !.new = << >>, !.changed = << >>, !.start = run.i]
  IN IF done.ok THEN After(run)
     ELSE After([run EXCEPT !.errors = @ + batch, !.imported = @ - batch])

\* A browser session with no handler at work.
Idle == Run("idle", None, "", << >>, FALSE)

(***************************************************************************)
(* State.                                                                  *)
(***************************************************************************)
VARIABLES
  now,            \* datetime.utcnow()
  users,          \* the users table
  session_state,  \* st.session_state of the browser session
  query_params,   \* st.query_params: the query string of the URL
  page,           \* what the browser shows: "none", "login", "protected", "error"
  discarded,      \* the token the last logout removed from the URL
  ev,             \* the step just taken
  tok,            \* token service on its own: the string under test,
  origin,         \*   how it came about,
  res,            \*   and what _decode_token made of it
  upload,         \* import page: the file in the uploader,
  parsed,         \*   and what parse_upload made of it
  journal_entries,\* the journal_entries table
  runs            \* each browser session's handler at work on the table

vars == << now, users, session_state, query_params, page, discarded, ev, tok, origin, res,
          upload, parsed, journal_entries, runs >>

appVars == << users, session_state, query_params, page, discarded, ev >>
tokVars == << tok, origin, res >>
pipeVars == << upload, parsed, journal_entries, runs >>

EmptyDict == [k \in {} |-> 0]

NoToken == [has |-> FALSE, tok |-> << >>]

\* The record of a step: its operation, whether the session was
\* authenticated before it, the token the URL held before it, and what the
\* step's call of _decode_token (if any) returned.
Event(op, ss, qp, o) ==
  [op |-> op,
   pre_auth |-> IsAuthenticated(ss),
   had_tok |-> _SESSION_PARAM \in DOMAIN qp,
   url_tok |-> IF _SESSION_PARAM \in DOMAIN qp THEN qp[_SESSION_PARAM] ELSE << >>,
   called |-> o.called, tok |-> o.tok, out |-> o.out, raised |-> o.raised]

NoCall(ss, qp) == Outcome(ss, qp, "", FALSE, << >>, Return(None))

\* How the string under test came about: issued to uid at iat, or made from
\* such a token (kind says how), or made up.
Origin(kind, uid, iat) == [kind |-> kind, uid |-> uid, iat |-> iat]

NoResult == [called |-> FALSE, out |-> Return(None)]

Init ==
  /\ now = 0
  /\ users = {}
  /\ session_state = EmptyDict
  /\ query_params = EmptyDict
  /\ page = "none"
  /\ discarded = NoToken
  /\ ev = Event("init", EmptyDict, EmptyDict, NoCall(EmptyDict, EmptyDict))
  /\ tok = << >>
  /\ origin = Origin("none", 0, 0)
  /\ res = NoResult
  /\ upload = NoUpload
  /\ parsed = NotParsed
  /\ journal_entries = {}
  /\ runs = [s \in Sessions |-> Idle]

(***************************************************************************)
(* The application: one browser session, the users table, the clock.       *)
(***************************************************************************)
\* The clock advances.
Tick ==
  /\ \E t \in Instants : t > now /\ now' = t
  /\ ev' = Event("tick", session_state, query_params, NoCall(session_state, query_params))
  /\ res' = NoResult
  /\ UNCHANGED << users, session_state, query_params, page, discarded, tok, origin, pipeVars >>

\* The record of a step that called register_user: the fields as they were
\* typed, and whether the call reported success.
Submitted(e, email, password, name, ok) ==
  [k \in DOMAIN e \cup {"email", "password", "name", "ok"} |->
     IF k = "email" THEN email
     ELSE IF k = "password" THEN password
     ELSE IF k = "name" THEN name
     ELSE IF k = "ok" THEN ok
     ELSE e[k]]

\* app.py, "Create Account" form submitted.
Register(email, password, name) ==
  /\ page = "login"
  /\ Cardinality(users) < MaxUsers
  /\ users' = register_user(users, email, password, name).db
  /\ ev' = Submitted(Event("register", session_state, query_params,
                           NoCall(session_state, query_params)),
                     email, password, name,
                     register_user(users, email, password, name).ok)
  /\ UNCHANGED << now, session_state, query_params, page, discarded, tokVars, pipeVars >>

\* app.py, "Log In" form submitted: on success the session is set, the token
\* is put into the URL and the script reruns, now authenticated.
Login(email, password) ==
  /\ page = "login"
  /\ LET found == login_user(users, email, password) IN
     IF found = {} THEN UNCHANGED << session_state, query_params, page >>
     ELSE LET user == CHOOSE u \in found : TRUE IN
          /\ session_state' = set_session_user(session_state, user)
          /\ query_params' = set_session_param(query_params, user.id, now)
          /\ page' = "protected"
  /\ ev' = Event("login", session_state, query_params,
                 NoCall(session_state, query_params))
  /\ UNCHANGED << now, users, discarded, tokVars, pipeVars >>

\* A run of app.py: the session is restored from the URL unless it is
\* authenticated; an unauthenticated session gets the login page (st.stop),
\* an authenticated one the selected page, whose first call is require_auth.
RunApp ==
  LET Page(r) ==
        /\ page' = "protected"
        /\ session_state' = r.o.ss
        /\ query_params' = r.o.qp
      Restored(o) ==
        /\ IF o.raised # "" THEN
             /\ page' = "error"
             /\ UNCHANGED << session_state, query_params >>
           ELSE IF ~IsAuthenticated(o.ss) THEN
             /\ page' = "login"
             /\ session_state' = o.ss
             /\ query_params' = o.qp
           ELSE Page(require_auth(o.ss, o.qp, users, now))
        /\ ev' = Event("app", session_state, query_params, o)
  IN
  /\ Restored(restore_session_from_params(session_state, query_params, users, now))
  /\ UNCHANGED << now, users, discarded, tokVars, pipeVars >>

\* A run of a page script (pages/*.py), which starts with require_auth.
RunPage ==
  LET Required(r) ==
        /\ IF r.o.raised # "" THEN
             /\ page' = "error"
             /\ UNCHANGED << session_state, query_params >>
           ELSE
             /\ page' = IF r.switched THEN "login" ELSE "protected"
             /\ session_state' = r.o.ss
             /\ query_params' = r.o.qp
        /\ ev' = Event("page", session_state, query_params, r.o)
  IN
  /\ Required(require_auth(session_state, query_params, users, now))
  /\ UNCHANGED << now, users, discarded, tokVars, pipeVars >>

\* The user moves to another page: the framework drops the query string and
\* the page's script runs.
Navigate ==
  LET Required(stripped, r) ==
        /\ page' = IF r.switched THEN "login" ELSE "protected"
        /\ session_state' = r.o.ss
        /\ query_params' = r.o.qp
        /\ ev' = Event("navigate", session_state, stripped, r.o)
  IN
  /\ page = "protected"
  /\ Required(Pop(query_params, {_SESSION_PARAM}),
              require_auth(session_state, Pop(query_params, {_SESSION_PARAM}), users, now))
  /\ UNCHANGED << now, users, discarded, tokVars, pipeVars >>

\* pages/account.py, "Log Out" pressed: logout() and a rerun, which finds no
\* session and shows the login page.
Logout ==
  /\ page = "protected"
  /\ IsAuthenticated(session_state)
  /\ LET r == logout(session_state, query_params) IN
     /\ session_state' = r.ss
     /\ query_params' = r.qp
  /\ page' = "login"
  /\ discarded' =
       IF _SESSION_PARAM \in DOMAIN query_params
       THEN [has |-> TRUE, tok |-> query_params[_SESSION_PARAM]] ELSE discarded
  /\ ev' = Event("logout", session_state, query_params,
                 NoCall(session_state, query_params))
  /\ UNCHANGED << now, users, tokVars, pipeVars >>

\* A URL without the session parameter is opened in a new browser session.
OpenPlain ==
  /\ session_state' = EmptyDict
  /\ query_params' = EmptyDict
  /\ page' = "none"
  /\ ev' = Event("open", session_state, query_params,
                 NoCall(session_state, query_params))
  /\ UNCHANGED << now, users, discarded, tokVars, pipeVars >>

\* A URL carrying the given string as session parameter is opened in a new
\* browser session.
OpenUrl(t) ==
  /\ session_state' = EmptyDict
  /\ query_params' = [k \in {_SESSION_PARAM} |-> t]
  /\ page' = "none"
  /\ ev' = Event("open", session_state, query_params,
                 NoCall(session_state, query_params))
  /\ UNCHANGED << now, users, discarded, tokVars, pipeVars >>

\* Tokens nobody was issued, per instant: for a user id without a row, for
\* user id 0, with an expiry that is no timestamp, signed with another key,
\* and expired a second ago.
UrlForged ==
  [t \in Instants |->
     { SignedToken(json_dumps(9, isoformat(t + SessionSeconds)), _secret),
       SignedToken(json_dumps(0, isoformat(t + SessionSeconds)), _secret),
       SignedToken(json_dumps(1, Bytes(<< "z", "z" >>)), _secret),
       SignedToken(json_dumps(1, isoformat(t + SessionSeconds)), WrongKey) }
     \cup { SignedToken(json_dumps(1, isoformat(e)), _secret) : e \in {t - 1} \cap Nat }]

\* Strings that are no token at all.
UrlGarbage == { << >>, Bytes(<< "a", "b", "c" >>) }

\* What may be made of a token once held: the token itself, or the token
\* with the last digit of its tag changed.
UrlReplays(t) ==
  {t} \cup (IF t = << >> THEN {}
            ELSE {[t EXCEPT ![Len(t)] = c] : c \in {Ord("0"), Ord("f")}})

(***************************************************************************)
(* The token service on its own: a string is made, then verified.          *)
(***************************************************************************)
\* _make_token(user_id) at the current instant.
Issue(user_id) ==
  /\ tok' = _make_token(user_id, now)
  /\ origin' = Origin("issued", user_id, now)
  /\ res' = NoResult
  /\ UNCHANGED << now, pipeVars, appVars >>

\* One character of the tag of an issued token is replaced by another.
TamperTag(i, c) ==
  /\ origin.kind = "issued"
  /\ i \in (SepIndex(tok) + 1)..Len(tok)
  /\ c # tok[i]
  /\ tok' = [tok EXCEPT ![i] = c]
  /\ origin' = [origin EXCEPT !.kind = "tag"]
  /\ res' = NoResult
  /\ UNCHANGED << now, pipeVars, appVars >>

\* One character of the payload portion of an issued token is replaced.
TamperPayload(i, c) ==
  /\ origin.kind = "issued"
  /\ i \in 1..(SepIndex(tok) - 1)
  /\ c # tok[i]
  /\ tok' = [tok EXCEPT ![i] = c]
  /\ origin' = [origin EXCEPT !.kind = "payload"]
  /\ res' = NoResult
  /\ UNCHANGED << now, pipeVars, appVars >>

\* A character outside the base64 alphabet is inserted into the payload
\* portion of an issued token.
InsertJunk(i, c) ==
  /\ origin.kind = "issued"
  /\ i \in 1..(SepIndex(tok) - 1)
  /\ tok' = InsertAt(tok, i, c)
  /\ origin' = [origin EXCEPT !.kind = "junk"]
  /\ res' = NoResult
  /\ UNCHANGED << now, pipeVars, appVars >>

\* A part of an issued token is cut off: the tag, the tag and the separator,
\* the first character, the padding.
Cut(which) ==
  /\ origin.kind = "issued"
  /\ tok' = IF which = "tag" THEN SubSeq(tok, 1, SepIndex(tok))
            ELSE IF which = "separator" THEN SubSeq(tok, 1, SepIndex(tok) - 1)
            ELSE IF which = "first" THEN SubSeq(tok, 2, Len(tok))
            ELSE SelectSeq(tok, LAMBDA c : c # Ord("="))
  /\ origin' = [origin EXCEPT !.kind = which]
  /\ res' = NoResult
  /\ UNCHANGED << now, pipeVars, appVars >>

\* A token nobody was issued: a payload signed with the server's key (a key
\* that is the published default can be used by anyone) or with another key.
Forge(payload, key) ==
  /\ tok' = SignedToken(payload, key)
  /\ origin' = Origin(IF key = _secret THEN "forged" ELSE "wrongkey", 0, now)
  /\ res' = NoResult
  /\ UNCHANGED << now, pipeVars, appVars >>

\* A string that is no token.
Garbage(g) ==
  /\ tok' = g
  /\ origin' = Origin("garbage", 0, now)
  /\ res' = NoResult
  /\ UNCHANGED << now, pipeVars, appVars >>

\* _decode_token(tok) at the current instant.
Verify ==
  /\ origin.kind # "none"
  /\ res' = [called |-> TRUE, out |-> _decode_token(tok, now)]
  /\ UNCHANGED << now, pipeVars, appVars, tok, origin >>

NextToken ==
  \/ Tick
  \/ \E u \in 1..MaxUsers : Issue(u)
  \/ \E i \in 1..Len(tok), c \in TamperChars : TamperTag(i, c)
  \/ \E i \in {1, SepIndex(tok) \div 2, SepIndex(tok) - 1}, c \in {Ord("A"), Ord("!")} :
       TamperPayload(i, c)
  \/ \E i \in {1, SepIndex(tok) \div 2}, c \in JunkChars : InsertJunk(i, c)
  \/ \E which \in {"tag", "separator", "first", "padding"} : Cut(which)
  \/ \E p \in OddPayloads(now) \cup EdgePayloads(now) : Forge(p, _secret)
  \/ \E p \in EdgePayloads(now) : Forge(p, WrongKey)
  \/ \E g \in GarbageTokens : Garbage(g)
  \/ Verify

SpecToken == Init /\ [][NextToken]_vars

Next ==
  \/ Tick
  \/ \E e \in EmailInputs, p \in PasswordInputs, n \in NameInputs : Register(e, p, n)
  \/ \E e \in EmailInputs, p \in PasswordInputs : Login(e, p)
  \/ RunApp
  \/ RunPage
  \/ Navigate
  \/ Logout
  \/ OpenPlain
  \/ \E t \in UrlGarbage \cup UrlForged[now] : OpenUrl(t)
  \/ discarded.has /\ \E t \in UrlReplays(discarded.tok) : OpenUrl(t)

Spec == Init /\ [][Next]_vars

(***************************************************************************)
(* Vocabulary of the properties: what a string holds when it is taken      *)
(* apart the way a token is put together.                                  *)
(***************************************************************************)
Anatomy(token) ==
  LET parts == rsplit(token)
      split_ok == Len(parts) = 2
      decoded == IF split_ok
                 THEN urlsafe_b64decode(parts[1] \o << Ord("="), Ord("=") >>)
                 ELSE Raise("ValueError")
      b64_ok == ~IsRaised(decoded)
      data == IF b64_ok THEN json_loads(decoded.val) ELSE Raise("ValueError")
      json_ok == ~IsRaised(data)
      expv == IF json_ok THEN GetItem(data.val, KeyExp) ELSE Raise("ValueError")
      expiry == IF ~IsRaised(expv) THEN fromisoformat(expv.val) ELSE Raise("ValueError")
      uidv == IF json_ok THEN GetItem(data.val, KeyUid) ELSE Raise("ValueError")
      uid == IF ~IsRaised(uidv) THEN IntOf(uidv.val) ELSE Raise("ValueError")
  IN [ split_ok |-> split_ok,
       b64_ok |-> b64_ok,
       \* the tag is the HMAC of the decoded payload under the server's key
       signed |-> b64_ok /\ parts[2] = hmac_hexdigest(_secret, decoded.val),
       json_ok |-> json_ok,
       \* the payload holds an expiry that is a naive timestamp
       has_exp |-> ~IsRaised(expiry) /\ ~expiry.val.aware,
       exp |-> IF ~IsRaised(expiry) THEN expiry.val.t ELSE 0,
       has_uid |-> ~IsRaised(uid),
       uid |-> IF ~IsRaised(uid) THEN uid.val ELSE None ]

\* The characters of the base64url alphabet, and the padding character.
IsB64UrlChar(c) ==
  \/ c >= Ord("A") /\ c <= Ord("Z")
  \/ c >= Ord("a") /\ c <= Ord("z")
  \/ IsDigit(c)
  \/ c \in {Ord("-"), Ord("_"), Ord("=")}

\* The part of a string before its last separator.
PayloadPortion(token) == rsplit(token)[1]

AuthKeys == {"authenticated", "user_id", "user_name", "user_email"}

(***************************************************************************)
(* Properties of the token service (specification SpecToken).              *)
(***************************************************************************)
\* C1: a token issued for a positive user id, verified under the same secret
\* before its expiry, yields exactly that user id.
C1_RoundTrip ==
  res.called /\ origin.kind = "issued" /\ now < origin.iat + SessionSeconds
    => res.out = Return(origin.uid)

C1_Witness ==
  /\ res.called /\ origin.kind = "issued"
  /\ origin.uid > 1 /\ origin.iat > 0 /\ now > origin.iat
  /\ res.out = Return(origin.uid)

\* C2: an issued token with one character of its tag replaced by a different
\* one is invalid, and a user id is returned only for a string whose tag is
\* the HMAC of its decoded payload under the server's secret.
C2_TamperDetection ==
  res.called =>
    /\ origin.kind = "tag" => res.out = Return(None)
    /\ res.out.val # None => Anatomy(tok).signed

C2_Witness ==
  /\ res.called /\ origin.kind = "tag"
  /\ Len(rsplit(tok)) = 2 /\ Len(rsplit(tok)[2]) = DigestHexLen
  /\ \A i \in 1..DigestHexLen : rsplit(tok)[2][i] \in {HexChar(v) : v \in 0..15}
  /\ now < origin.iat + SessionSeconds
  /\ res.out = Return(None)

\* C3: a token whose embedded expiry is strictly in the past is invalid, also
\* when its tag is a correct signature of its payload.
C3_ExpiredRejected ==
  res.called /\ Anatomy(tok).has_exp /\ Anatomy(tok).exp < now
    => res.out = Return(None)

C3_Witness ==
  /\ res.called
  /\ Anatomy(tok).signed /\ Anatomy(tok).has_uid /\ Anatomy(tok).uid >= 1
  /\ Anatomy(tok).has_exp /\ Anatomy(tok).exp < now
  /\ res.out = Return(None)

\* C4: a correctly signed token is accepted only while now < expires_at; at
\* every now >= expires_at, the instant now = expires_at included, it is
\* invalid.
C4_ExpiryBoundary ==
  res.called /\ Anatomy(tok).signed /\ Anatomy(tok).has_exp /\ now >= Anatomy(tok).exp
    => res.out = Return(None)

C9_ForeignCharactersRejected ==
  res.called /\ (\E i \in 1..Len(PayloadPortion(tok)) : ~IsB64UrlChar(PayloadPortion(tok)[i]))
    => res.out = Return(None)

\* C10: a token issued at time t verifies at every time in [t, t + 30 days)
\* and at no time from t + 30 days on.
C10_ThirtyDayWindow ==
  res.called /\ origin.kind = "issued" /\ now >= origin.iat
    => /\ Anatomy(tok).exp = origin.iat + 30 * SecondsPerDay
       /\ (res.out = Return(origin.uid)) <=> (now < origin.iat + 30 * SecondsPerDay)
       /\ now >= origin.iat + 30 * SecondsPerDay => res.out = Return(None)

(***************************************************************************)
(* Properties of the session (specification Spec).                         *)
(***************************************************************************)
\* The step just taken ran restore_session_from_params on a session that was
\* not authenticated: a run of app.py or of a page script.
Restoring == ev.op \in {"app", "page"} /\ ~ev.pre_auth

\* The step just taken ended in require_auth returning on a session whose
\* authentication state is present.
AuthReturned ==
  ev.op \in {"app", "page", "navigate"} /\ ev.raised = ""
  /\ IsAuthenticated(session_state)

\* C6: logout removes the token from the URL and the user from the session
\* state, and nothing else: the token still verifies, and presented again in
\* the URL of a fresh session before its expiry it restores an authenticated
\* session for the same user.
C6_NoRevocation ==
  /\ ev.op = "logout" =>
       /\ _SESSION_PARAM \notin DOMAIN query_params
       /\ DOMAIN session_state \cap AuthKeys = {}
       /\ ev.had_tok => discarded = [has |-> TRUE, tok |-> ev.url_tok]
       /\ ev.had_tok /\ now < Anatomy(ev.url_tok).exp
            => _decode_token(ev.url_tok, now) = Return(Anatomy(ev.url_tok).uid)
  /\ Restoring /\ discarded.has /\ ev.had_tok /\ ev.url_tok = discarded.tok
     /\ now < Anatomy(discarded.tok).exp
       => /\ ev.raised = ""
          /\ IsAuthenticated(session_state)
          /\ session_state["user_id"] = Anatomy(discarded.tok).uid
          /\ \E u \in users : /\ u.id = session_state["user_id"]
                              /\ u.name = session_state["user_name"]
                              /\ u.email = session_state["user_email"]
          /\ page = "protected"

C6_Witness ==
  /\ Restoring /\ discarded.has /\ ev.had_tok /\ ev.url_tok = discarded.tok
  /\ Anatomy(discarded.tok).exp - SessionSeconds < now
  /\ now < Anatomy(discarded.tok).exp
  /\ IsAuthenticated(session_state)
  /\ session_state["user_id"] = Anatomy(discarded.tok).uid
  /\ page = "protected"

\* C7 as stated: whenever require_auth returns on an authenticated session,
\* the URL carries the session parameter and its token verifies to the
\* session's user id.
C7_TokenVerifies ==
  AuthReturned =>
    /\ _SESSION_PARAM \in DOMAIN query_params
    /\ _decode_token(query_params[_SESSION_PARAM], now) = Return(session_state["user_id"])

\* C7 amended: whenever require_auth returns on an authenticated session, the
\* URL carries the session parameter; a parameter that was missing is
\* re-created from the session's user id and verifies to it, one that was
\* present is left as it is.
C7_ReEmbedding ==
  AuthReturned =>
    /\ _SESSION_PARAM \in DOMAIN query_params
    /\ ev.had_tok => query_params[_SESSION_PARAM] = ev.url_tok
    /\ ~ev.had_tok =>
         /\ query_params[_SESSION_PARAM] = _make_token(session_state["user_id"], now)
         /\ _decode_token(query_params[_SESSION_PARAM], now)
              = Return(session_state["user_id"])

C7_Witness ==
  /\ AuthReturned /\ ev.op = "navigate" /\ ~ev.had_tok /\ now > 0
  /\ _SESSION_PARAM \in DOMAIN query_params
  /\ _decode_token(query_params[_SESSION_PARAM], now) = Return(session_state["user_id"])

\* A string in the URL that is malformed (no separator, a payload portion
\* that does not decode, a payload that is not the expected structure), forged
\* (a tag that is not the HMAC of the payload) or expired (an expiry strictly
\* in the past).
BadToken(t) ==
  LET a == Anatomy(t) IN
  \/ ~a.split_ok \/ ~a.b64_ok \/ ~a.signed
  \/ ~a.json_ok \/ ~a.has_exp \/ ~a.has_uid
  \/ a.exp < now

Said ==
  [iso |-> Bytes(<< "2", "0", "2", "4", "-", "0", "3", "-", "0", "5" >>),
   underscores |-> Bytes(<< "2", "0", "2", "4", "_", "0", "3", "_", "0", "6" >>),
   invalid_iso |-> Bytes(<< "2", "0", "2", "4", "-", "1", "3", "-", "4", "0" >>),
   natural |-> Bytes(<< "M", "a", "r", "c", "h", " ", "7", ",", " ", "2", "0", "2", "4" >>),
   lower_case |-> Bytes(<< "m", "a", "y", " ", "3", "1", " ", "2", "0", "2", "4" >>),
   \* invalid calendar values in the first grammar, a date in the second
   falls_through |->
     Bytes(<< "2", "0", "2", "4", "-", "1", "3", "-", "4", "0", " ",
              "M", "a", "y", " ", "9", " ", "2", "0", "2", "4" >>),
   invalid_natural |->
     Bytes(<< "J", "u", "n", "e", " ", "3", "1", ",", " ", "2", "0", "2", "4" >>),
   \* a month name written with the long s
   long_s |-> Bytes(<< "A", "u", "g", "u" >>) \o << LongS >>
              \o Bytes(<< "t", " ", "5", ",", " ", "2", "0", "2", "4" >>),
   none |-> Bytes(<< "n", "o", "t", "e", "s" >>)]

DateTexts == {Said[k] : k \in DOMAIN Said}

DotTxt == Bytes(<< ".", "t", "x", "t" >>)

FileNames == {t \o ext : t \in DateTexts, ext \in {DotTxt, DotZip, Bytes(<< ".", "Z", "I", "P" >>)}}

\* str.encode("utf-8") of code points below U+0800.
encode_utf8(text) ==
  LET Enc(c) == IF c < 128 THEN << c >> ELSE << 192 + (c \div 64), 128 + (c % 64) >>
      RECURSIVE Cat(_, _)
      Cat(lo, hi) ==
        IF lo > hi THEN << >>
        ELSE IF lo = hi THEN Enc(text[lo])
        ELSE Cat(lo, (lo + hi) \div 2) \o Cat((lo + hi) \div 2 + 1, hi)
  IN Cat(1, Len(text))

\* A delimiter line with its label, and the text of the n-th section.
Delimiter(label) == Bytes(<< "=", "=", "=", " " >>) \o label \o Bytes(<< " ", "=", "=", "=" >>)
Segment(n) == << 10, Ord(" "), Ord("a") + n, 10 >>

Labels == {Said.iso, Said.natural, Said.none, Said.long_s}

\* Text that may stand before the first delimiter.
Leads ==
  {<< >>, Bytes(<< "i", "n", "t", "r", "o" >>) \o << 10 >>,
   Bytes(<< "o", "n", " " >>) \o Said.underscores \o << 10 >>}

\* The texts of n sections.
RECURSIVE SectionTexts(_)
SectionTexts(n) ==
  IF n = 0 THEN Leads
  ELSE {t \o Delimiter(l) \o Segment(n) : t \in SectionTexts(n - 1), l \in Labels}

\* Texts without a delimiter; the second holds a date, the last is a rule
\* of seven "=" above a line.
PlainTexts ==
  {Bytes(<< " ", "d", "e", "a", "r", " ", "d", "i", "a", "r", "y", " " >>) \o << 10 >>,
   Bytes(<< "o", "n", " " >>) \o Said.iso \o Bytes(<< " ", "x" >>)}

RuledText == Bytes(<< "=", "=", "=", "=", "=", "=", "=" >>) \o << 10, Ord("x") >>

\* Files that are no container: UTF-8 text without a delimiter or with one,
\* the same after a byte order mark, and a byte string that is not UTF-8.
PlainFiles ==
  {RawFile(encode_utf8(t)) : t \in PlainTexts \cup {RuledText, Delimiter(Said.natural) \o Segment(1)}}
  \cup {RawFile(BOM \o encode_utf8(Delimiter(Said.iso) \o Segment(1))),
        RawFile(<< Ord("c"), Ord("a"), Ord("f"), 233 >>)}

\* Files of sections.
SectionFiles ==
  {RawFile(encode_utf8(t)) : t \in UNION {SectionTexts(n) : n \in 1..MaxSections}}

\* The members an archive may hold: dated ones, one without a date, a
\* packaging artifact, a directory marker, one with a long s in its name, one
\* with a bad checksum and an encrypted one.
Members ==
  {Member(Said.iso \o DotTxt, Segment(1), ""),
   Member(Said.natural \o DotTxt, Segment(2), ""),
   Member(Said.none \o DotTxt, Segment(3), ""),
   Member(MacOSX \o Slash \o Said.iso \o DotTxt, Segment(4), ""),
   Member(Bytes(<< "d", "i", "r" >>) \o Slash, << >>, ""),
   Member(Said.long_s \o DotTxt, Segment(5), ""),
   Member(Said.underscores \o DotTxt, Segment(6), "BadZipFile"),
   Member(Said.lower_case \o DotTxt, Segment(7), "RuntimeError")}

RECURSIVE Directories(_)
Directories(n) ==
  IF n = 0 THEN {<< >>} ELSE {Append(d, m) : d \in Directories(n - 1), m \in Members}

ZipFiles == {ZipFile(d) : d \in UNION {Directories(n) : n \in 0..MaxMembers}}

ZipNames == {Said.none \o DotZip, Said.iso \o Bytes(<< ".", "Z", "I", "P" >>)}

SectionNames == {Said.iso \o DotTxt, Said.none \o DotTxt, Said.none \o DotZip}

Uploaded(name, file) == [has |-> TRUE, name |-> name, file |-> file]

\* A container is uploaded under a name that ends in .zip.
Uploads ==
  {Uploaded(n, f) : n \in FileNames, f \in PlainFiles}
  \cup {Uploaded(n, f) : n \in SectionNames, f \in SectionFiles}
  \cup {Uploaded(n, f) : n \in ZipNames, f \in ZipFiles}

(***************************************************************************)
(* The import page up to the preview (pages/4_Import.py, lines 26-46).     *)
(***************************************************************************)
\* A file is chosen in the uploader.
ChooseFile(up) ==
  /\ ~upload.has
  /\ upload' = up
  /\ parsed' = NotParsed
  /\ UNCHANGED << now, appVars, tokVars, journal_entries, runs >>

\* The file is taken out of the uploader.
RemoveFile ==
  /\ upload.has
  /\ upload' = NoUpload
  /\ parsed' = NotParsed
  /\ UNCHANGED << now, appVars, tokVars, journal_entries, runs >>

\* The script runs: without a file it stops, with one it parses it.
RunImportPage ==
  LET Parsed(today, r) == [done |-> TRUE, today |-> today, fmt |-> r.fmt, out |-> r.out]
  IN /\ parsed' =
          IF ~upload.has THEN NotParsed
          ELSE Parsed(date_today(now), parse_upload_steps(upload.name, upload.file, date_today(now)))
     /\ UNCHANGED << now, appVars, tokVars, upload, journal_entries, runs >>

NextImport ==
  \/ Tick
  \/ ~upload.has /\ \E up \in Uploads : ChooseFile(up)
  \/ RemoveFile
  \/ RunImportPage

SpecImport == Init /\ [][NextImport]_vars

(***************************************************************************)
(* Browser sessions at work on the journal_entries table.                  *)
(***************************************************************************)
\* What the text area of the journal page may hold.
JournalTexts == {Bytes(<< "m", "y", " ", "d", "a", "y" >>)}

\* The uploads imported: an archive of two days, an undated text and a file
\* of two sections of one day.
StoreUploads ==
  {Uploaded(Said.none \o DotZip,
            ZipFile(<< Member(Said.iso \o DotTxt, Segment(1), ""),
                       Member(Said.natural \o DotTxt, Segment(2), "") >>)),
   Uploaded(Said.none \o DotTxt, RawFile(Segment(3))),
   Uploaded(Said.none \o DotTxt,
            RawFile(Delimiter(Said.iso) \o Segment(4) \o Delimiter(Said.iso) \o Segment(5)))}

\* A file of batch_size + 1 sections: the first is of a day that a dated file
\* has too, the last of the first day of the clock, the others of days of
\* their own.
LongText ==
  LET Label(n) == IF n = 1 THEN Said.iso
                  ELSE IF n = batch_size + 1 THEN date_isoformat(date_today(0))
                  ELSE Bytes(<< "2", "0", "2", "4", "-", "0", "4", "-", "1" >>) \o << Ord("0") + n - 2 >>
      RECURSIVE Sections(_)
      Sections(n) == IF n = 0 THEN << >> ELSE Sections(n - 1) \o Delimiter(Label(n)) \o Segment(n)
  IN Sections(batch_size + 1)

LongUpload == Uploaded(Said.none \o DotTxt, RawFile(LongText))

\* A dated file of one day.
ShortUpload == Uploaded(Said.iso \o DotTxt, RawFile(Segment(13)))

Free(s) == runs[s].op \in {"idle", "done"}

\* pages/1_Journal.py, lines 151-182: Save is clicked; the row of today is
\* looked up and changed, or a new one is added.
SaveClicked(s, user_id, content) ==
  LET Found(found) ==
        IF found # {}
        THEN [Run("save", user_id, "", << >>, TRUE) EXCEPT
                !.changed = << Changed(found, content) >>]
        ELSE [Run("save", user_id, "", << >>, FALSE) EXCEPT
                !.new = << ParsedEntry(date_today(now), content) >>]
  IN /\ Free(s)
     /\ runs' = [runs EXCEPT ![s] = Found(query_first(journal_entries, user_id, date_today(now)))]
     /\ UNCHANGED << now, appVars, tokVars, upload, parsed, journal_entries >>

\* pages/1_Journal.py, lines 183-190: the commit, and the rollback if it fails.
SaveCommit(s) ==
  LET Done(done) ==
        /\ journal_entries' = done.table
        /\ runs' = [runs EXCEPT ![s] = [@ EXCEPT !.op = "done", !.new = << >>, !.changed = << >>,
                                                 !.user_id = None,
                                                 !.errors = IF done.ok THEN 0 ELSE 1]]
  IN /\ runs[s].op = "save"
     /\ Done(commit(journal_entries, runs[s].user_id, runs[s].new, runs[s].changed))
     /\ UNCHANGED << now, appVars, tokVars, upload, parsed >>

\* What parse_upload makes of the uploads, day by day.
ParsedUploads ==
  [t \in Instants |-> [up \in StoreUploads \cup {LongUpload, ShortUpload} |->
                      parse_upload(up.name, up.file, date_today(t))]]

\* pages/4_Import.py, lines 35-76: a file was parsed, it gave entries, and
\* Import Entries is clicked.
ImportClicked(s, user_id, up, policy) ==
  LET Parsed(out) ==
        /\ ~IsRaised(out)
        /\ out.val.entries # << >>
        /\ runs' = [runs EXCEPT ![s] =
                      Run("import", user_id, policy, out.val.entries,
                          \A n \in 1..Len(out.val.entries) :
                            query_first(journal_entries, user_id, out.val.entries[n].date) # {})]
  IN /\ Free(s)
     /\ Parsed(ParsedUploads[now][up])
     /\ UNCHANGED << now, appVars, tokVars, upload, parsed, journal_entries >>

\* The next entry of the batch.
ImportItem(s) ==
  /\ runs[s].op = "import"
  /\ runs[s].i <= runs[s].total
  /\ runs[s].i < runs[s].start + batch_size
  /\ runs' = [runs EXCEPT ![s] = import_item(journal_entries, @)]
  /\ UNCHANGED << now, appVars, tokVars, upload, parsed, journal_entries >>

\* The batch is complete and committed.
ImportCommit(s) ==
  LET Done(done) ==
        /\ journal_entries' = done.table
        /\ runs' = [runs EXCEPT ![s] = import_commit(@, done)]
  IN /\ runs[s].op = "import"
     /\ runs[s].i > runs[s].total \/ runs[s].i = runs[s].start + batch_size
     /\ Done(commit(journal_entries, runs[s].user_id, runs[s].new, runs[s].changed))
     /\ UNCHANGED << now, appVars, tokVars, upload, parsed >>

NextStore ==
  \/ \E s \in Sessions, u \in 1..MaxUsers, t \in JournalTexts : SaveClicked(s, u, t)
  \/ \E s \in Sessions : SaveCommit(s)
  \/ \E s \in Sessions, u \in 1..MaxUsers, up \in StoreUploads,
        policy \in {"Skip existing", "Overwrite existing"} : ImportClicked(s, u, up, policy)
  \/ \E s \in Sessions : ImportItem(s)
  \/ \E s \in Sessions : ImportCommit(s)

SpecStore == Init /\ [][NextStore]_vars

\* One session imports the long file; the other, of the same user, saves the
\* entry of the day and imports the dated file.
NextBatch ==
  \/ \E policy \in {"Skip existing", "Overwrite existing"} : ImportClicked(1, 1, LongUpload, policy)
  \/ \E policy \in {"Skip existing", "Overwrite existing"} : ImportClicked(2, 1, ShortUpload, policy)
  \/ \E t \in JournalTexts : SaveClicked(2, 1, t)
  \/ SaveCommit(2)
  \/ \E s \in Sessions : ImportItem(s)
  \/ \E s \in Sessions : ImportCommit(s)

SpecBatch == Init /\ [][NextBatch]_vars

(***************************************************************************)
(* Vocabulary of the import properties.                                    *)
(***************************************************************************)
\* The text holds at least one delimiter.
HasDelimiter(text) == _HEADER_RE_findall(text) # << >>

\* The calendar date a string holds; NoDate when the extraction finds none
\* or does not return.
DateIn(s) ==
  LET Value(r) == IF IsRaised(r) THEN NoDate ELSE r.val
  IN Value(_parse_date_from_string(s))

ZipName(name) == endswith(lower(name), DotZip)

\* The strings of an upload of the given shape that may date an entry, in
\* the order of the traversal: member names (directory markers and packaging
\* artifacts left out), section labels, or the file name.
Candidates(up, shape) ==
  IF shape = "zip_750words"
  THEN SelectSeq([n \in 1..Len(up.file.members) |-> up.file.members[n].name],
                 LAMBDA name : ~endswith(name, Slash) /\ ~startswith(name, MacOSX))
  ELSE IF shape = "single_750words" THEN _HEADER_RE_findall(_decode(up.file.raw))
  ELSE IF shape = "dated_file" THEN << up.name >>
  ELSE << >>

\* The dates of the candidates that hold one.
DatesOf(cands) == SelectSeq([n \in 1..Len(cands) |-> DateIn(cands[n])], LAMBDA d : d # NoDate)

IsPrefix(a, b) == Len(a) <= Len(b) /\ a = SubSeq(b, 1, Len(a))

Range(f) == {f[x] : x \in DOMAIN f}

InvalidZip == Warning("Invalid zip file: {exc}", << >>)

\* parse_upload returned a pair.
Returned == parsed.done /\ ~IsRaised(parsed.out)

\* C11: format detection returns exactly one of the four shapes, decided in
\* fixed priority: a file name ending in .zip (any letter case) is the
\* archive shape whatever the content; otherwise content with a delimiter is
\* the multi-entry shape; otherwise a file name with a parseable date is the
\* single-dated shape; otherwise the upload is undated.  The content of a
\* .zip upload is never decoded: its outcome is that of the archive parser.
C11_DetectionPriority ==
  parsed.done =>
    /\ ~IsRaised(parsed.fmt)
    /\ parsed.fmt.val =
         IF ZipName(upload.name) THEN "zip_750words"
         ELSE IF HasDelimiter(_decode(upload.file.raw)) THEN "single_750words"
         ELSE IF DateIn(upload.name) # NoDate THEN "dated_file"
         ELSE "undated_file"
    /\ ZipName(upload.name) => parsed.out = parse_zip_750words(upload.file)

\* C12: every entry parse_upload returns carries a resolved date: the dates
\* of the entries are, in order, the dates extracted from the member names,
\* the section labels or the file name (all of them, unless the archive broke
\* off), or the one entry is dated today and the fallback warning comes with
\* it; no candidate without a date is returned under some other date.
C12_EveryEntryDated ==
  Returned =>
    LET entries == parsed.out.val.entries
        warnings == parsed.out.val.warnings
        dates == [n \in 1..Len(entries) |-> entries[n].date]
        found == DatesOf(Candidates(upload, parsed.fmt.val))
    IN /\ \A n \in 1..Len(entries) : dates[n] # NoDate
       /\ IF parsed.fmt.val = "undated_file"
          THEN dates = << parsed.today >> /\ FallbackWarning(parsed.today) \in Range(warnings)
          ELSE IF InvalidZip \in Range(warnings)
          THEN IsPrefix(dates, found)
          ELSE dates = found

\* A file of sections gave two entries and dropped a section.
C12_Witness ==
  /\ Returned
  /\ parsed.fmt.val = "single_750words"
  /\ Len(parsed.out.val.entries) = 2
  /\ Len(parsed.out.val.warnings) = 1

\* C13: date extraction tries the ISO-like grammar first and the
\* natural-language grammar second; an ISO-like match with invalid calendar
\* values falls through to the second grammar, and when neither yields a
\* valid date the result is "no date found", a value and never an exception.
\* Checked on every string an upload offers for dating.
C13_ExtractionTotal ==
  upload.has =>
    \A shape \in {"zip_750words", "single_750words", "dated_file"} :
      \A c \in Range(Candidates(upload, shape)) :
        /\ ~IsRaised(_parse_date_from_string(c))
        /\ LET iso == Leftmost(c, 1, _ISO_DATE_RE_match)
               first == IF iso.start = 0 THEN Raise("ValueError")
                        ELSE date(DigitsValue(iso.groups[1]), DigitsValue(iso.groups[2]),
                                  DigitsValue(iso.groups[3]))
           IN _parse_date_from_string(c) = IF IsRaised(first) THEN _parse_natural(c) ELSE first

\* Every member of the archive can be read.
Readable(file) == file.container /\ \A n \in 1..Len(file.members) : file.members[n].read = ""

\* C14: archive parsing, per member of a readable archive: a directory
\* marker or a member whose name starts with __MACOSX yields no entry and no
\* warning; a member whose name holds no parseable date yields exactly one
\* warning naming it and no entry; every other member yields exactly one
\* entry.  An undateable member never stops the later members.
C14_PerMember ==
  (parsed.done /\ ZipName(upload.name) /\ Readable(upload.file)) =>
    LET names == Candidates(upload, "zip_750words")
        dated == SelectSeq(names, LAMBDA c : DateIn(c) # NoDate)
        undated == SelectSeq(names, LAMBDA c : DateIn(c) = NoDate)
    IN /\ ~IsRaised(parsed.out)
       /\ [n \in 1..Len(parsed.out.val.entries) |-> parsed.out.val.entries[n].date]
            = [n \in 1..Len(dated) |-> DateIn(dated[n])]
       /\ [n \in 1..Len(parsed.out.val.warnings) |-> parsed.out.val.warnings[n].arg] = undated

\* C15: a corrupt or unreadable archive yields zero entries and exactly one
\* warning: whenever the archive parser reports a container failure, at
\* whatever point of the traversal, the entry list is empty and the warning
\* list has one element.
C15_CorruptArchiveEmpty ==
  (Returned /\ ZipName(upload.name) /\ InvalidZip \in Range(parsed.out.val.warnings)) =>
    /\ parsed.out.val.entries = << >>
    /\ Len(parsed.out.val.warnings) = 1

\* The text after the n-th delimiter, up to the next one or the end.
SegmentAfter(text, n) ==
  LET Between(ms) ==
        SubSeq(text, ms[n].stop, IF n = Len(ms) THEN Len(text) ELSE ms[n + 1].start - 1)
  IN Between(_HEADER_RE_finditer(text, 1))

\* C16: multi-entry parsing pairs each delimiter's label with the text that
\* follows it up to the next delimiter or the end: for n delimiters, entries
\* plus warnings are n; each entry has the date of its label and its own
\* segment, trimmed; a label without a date drops its own segment only, with
\* one warning.
C16_SectionsPaired ==
  (parsed.done /\ ~IsRaised(parsed.fmt) /\ parsed.fmt.val = "single_750words") =>
    LET text == _decode(upload.file.raw)
        labels == _HEADER_RE_findall(text)
        kept == SelectSeq([n \in 1..Len(labels) |-> n], LAMBDA n : DateIn(labels[n]) # NoDate)
        dropped == SelectSeq([n \in 1..Len(labels) |-> n], LAMBDA n : DateIn(labels[n]) = NoDate)
    IN /\ ~IsRaised(parsed.out)
       /\ Len(parsed.out.val.entries) + Len(parsed.out.val.warnings) = Len(labels)
       /\ parsed.out.val.entries
            = [k \in 1..Len(kept) |->
                 ParsedEntry(DateIn(labels[kept[k]]), strip(SegmentAfter(text, kept[k])))]
       /\ [k \in 1..Len(parsed.out.val.warnings) |-> parsed.out.val.warnings[k].arg]
            = [k \in 1..Len(dropped) |-> strip(labels[dropped[k]])]

\* C17: the import pipeline never raises, whatever the file name and the
\* bytes: parse_upload always returns a pair of entries and warnings, and an
\* archive that cannot be opened or read is reported through the warnings,
\* with an empty entry list.
C17_NeverRaises ==
  parsed.done =>
    /\ ~IsRaised(parsed.out)
    /\ (ZipName(upload.name) /\ ~Readable(upload.file)) =>
         parsed.out.val.entries = << >> /\ parsed.out.val.warnings # << >>

\* C20: an upload classified as undated yields exactly one entry, dated
\* today, and exactly one warning, which says that the fallback date was
\* applied; the content is not searched for a date.
C20_UndatedFallback ==
  (parsed.done /\ ~IsRaised(parsed.fmt) /\ parsed.fmt.val = "undated_file") =>
    parsed.out = Result(<< ParsedEntry(parsed.today, strip(_decode(upload.file.raw))) >>,
                        << FallbackWarning(parsed.today) >>)

\* An undated upload whose content holds a date was parsed, on a day that is
\* not the first of the clock.
C20_Witness ==
  /\ parsed.done /\ ~IsRaised(parsed.fmt) /\ parsed.fmt.val = "undated_file"
  /\ DateIn(_decode(upload.file.raw)) # NoDate
  /\ parsed.today # date_today(0)

\* C22: the pipeline neither sorts nor removes duplicates: the entries of an
\* archive are those of its dated members in the order of the directory (up
\* to the member at which the archive broke off), the entries of a file of
\* sections those of its dated labels in the order of the file, and members
\* or sections of one date all appear.
C22_TraversalOrder ==
  (Returned /\ parsed.fmt.val \in {"zip_750words", "single_750words"}) =>
    LET entries == parsed.out.val.entries
        text == _decode(upload.file.raw)
        labels == _HEADER_RE_findall(text)
        members == SelectSeq(upload.file.members,
                             LAMBDA m : /\ ~endswith(m.name, Slash) /\ ~startswith(m.name, MacOSX)
                                        /\ DateIn(m.name) # NoDate)
        kept == SelectSeq([n \in 1..Len(labels) |-> n], LAMBDA n : DateIn(labels[n]) # NoDate)
    IN IF parsed.fmt.val = "single_750words"
       THEN entries = [k \in 1..Len(kept) |->
                         ParsedEntry(DateIn(labels[kept[k]]), strip(SegmentAfter(text, kept[k])))]
       ELSE /\ IsPrefix(entries,
                        [k \in 1..Len(members) |->
                           ParsedEntry(DateIn(members[k].name), strip(_decode(members[k].data)))])
            /\ InvalidZip \notin Range(parsed.out.val.warnings) => Len(entries) = Len(members)

\* A file of three sections gave three entries: the first of a later day than
\* the second, the second and the third of one day with different texts.
C22_Witness ==
  /\ Returned /\ parsed.fmt.val = "single_750words"
  /\ Len(parsed.out.val.entries) = 3
  /\ parsed.out.val.entries[1].date = DateIn(Said.natural)
  /\ parsed.out.val.entries[2].date = DateIn(Said.iso)
  /\ parsed.out.val.entries[3].date = DateIn(Said.iso)
  /\ parsed.out.val.entries[2].content # parsed.out.val.entries[3].content

\* The text before the first delimiter, and the text from it on.
LeadOf(text) == SubSeq(text, 1, Leftmost(text, 1, _HEADER_RE_match).start - 1)
FromFirstDelimiter(text) == SubSeq(text, Leftmost(text, 1, _HEADER_RE_match).start, Len(text))

\* C29: in a file of sections the text before the first delimiter gives no
\* entry and no warning and has no part in the result: the outcome is that
\* of the file without it, and no entry has the date or the text of it.
C29_LeadDropped ==
  (parsed.done /\ ~IsRaised(parsed.fmt) /\ parsed.fmt.val = "single_750words") =>
    LET text == _decode(upload.file.raw)
    IN /\ parsed.out = parse_single_750words(FromFirstDelimiter(text))
       /\ (Returned /\ LeadOf(text) # << >>) =>
            /\ Len(parsed.out.val.entries) + Len(parsed.out.val.warnings)
                 = Len(_HEADER_RE_findall(text))
            /\ \A n \in 1..Len(parsed.out.val.entries) :
                 parsed.out.val.entries[n].content # strip(LeadOf(text))

\* A file whose first lines hold a date before the first delimiter was
\* parsed into two entries.
C29_Witness ==
  /\ Returned /\ parsed.fmt.val = "single_750words"
  /\ DateIn(LeadOf(_decode(upload.file.raw))) # NoDate
  /\ Len(parsed.out.val.entries) = 2
  /\ \A n \in 1..2 : parsed.out.val.entries[n].date # DateIn(LeadOf(_decode(upload.file.raw)))

(***************************************************************************)
(* Properties of the handlers that write to journal_entries.               *)
(***************************************************************************)
\* The rows of a user and date.
RowsOf(table, user_id, d) == {r \in table : r.user_id = user_id /\ r.date = d}

\* The step is one of the import run of session s.
ImportStep(s) == runs[s].op = "import" /\ runs'[s] # runs[s]

\* C18: an import run with the policy "Skip existing", started on a table that
\* held a row of the user for every date of the upload, adds no row, changes
\* none, counts every entry it has taken as skipped and none as imported or
\* failed, and ends with skipped = total.
C18_SkipIdempotent ==
  [][\A s \in Sessions :
       (ImportStep(s) /\ runs[s].policy = "Skip existing" /\ runs[s].held)
         => /\ journal_entries' = journal_entries
            /\ runs'[s].new = << >> /\ runs'[s].changed = << >>
            /\ runs'[s].skipped = runs'[s].i - 1
            /\ runs'[s].imported = 0 /\ runs'[s].errors = 0
            /\ (runs'[s].op = "done" => runs'[s].skipped = runs'[s].total)]_vars

C18_Witness ==
  \E s \in Sessions :
    /\ runs[s].op = "done" /\ runs[s].policy = "Skip existing" /\ runs[s].held
    /\ runs[s].total >= 2 /\ runs[s].skipped = runs[s].total
    /\ Cardinality(journal_entries) >= 2

\* The commit of session s would insert a row of a user and date that the
\* table holds already, or two of them.
Conflicting(s) ==
  /\ runs[s].op \in {"save", "import"}
  /\ runs'[s].start # runs[s].start \/ runs'[s].op = "done"
  /\ \E n \in 1..Len(runs[s].new) :
        \/ RowsOf(journal_entries, runs[s].user_id, runs[s].new[n].date) # {}
        \/ \E k \in 1..Len(runs[s].new) :
             k # n /\ runs[s].new[k].date = runs[s].new[n].date

\* C19: whatever the sessions save and import, and however their steps
\* interleave, no two rows of journal_entries have the same user_id and date;
\* a commit that would insert a second row of a user and date leaves the
\* table as it was, empties the database session and is counted as failed.
C19_UniquePerUserDate ==
  [][/\ \A r \in journal_entries' : RowsOf(journal_entries', r.user_id, r.date) = {r}
     /\ \A s \in Sessions :
          Conflicting(s) => /\ journal_entries' = journal_entries
                            /\ runs'[s].new = << >> /\ runs'[s].changed = << >>
                            /\ runs'[s].errors > runs[s].errors]_vars

\* A commit was rejected: a session ended with an error while the table holds
\* rows of both users.
C19_Witness ==
  /\ \E s \in Sessions : runs[s].op = "done" /\ runs[s].errors > 0
  /\ \A u \in 1..MaxUsers : \E r \in journal_entries : r.user_id = u

(***************************************************************************)
(* Text decoding on the import page: byte buffers that are no container,   *)
(* uploaded under a name without a date.                                   *)
(***************************************************************************)
\* The bytes the buffers are made of: a letter, the lead and the second byte
\* of U+00E9, the three bytes of the byte order mark, the second byte of
\* U+00A0 and the lead byte of U+0800..U+0FFF.
BufferBytes == {Ord("a"), 195, 169, 239, 187, 191, 160, 224}

RECURSIVE Buffers(_)
Buffers(n) ==
  IF n = 0 THEN {<< >>} ELSE {Append(b, c) : b \in Buffers(n - 1), c \in BufferBytes}

BufferUploads ==
  {Uploaded(Said.none \o DotTxt, RawFile(b)) : b \in UNION {Buffers(n) : n \in 0..MaxBytes}}

NextDecode ==
  \/ ~upload.has /\ \E up \in BufferUploads : ChooseFile(up)
  \/ RemoveFile
  \/ RunImportPage

SpecDecode == Init /\ [][NextDecode]_vars

\* The text the page made of the buffer: the content of the one entry, which
\* is the decoded text stripped.
PageText == parsed.out.val.entries[1].content

\* C21: decoding raises for no byte buffer and follows the order: the text is
\* the UTF-8 decoding when the bytes are valid UTF-8, else the decoding as
\* UTF-8 with a byte order mark when that succeeds, else the decoding as
\* latin-1, every byte one character.
C21_DecodeOrder ==
  (upload.has /\ parsed.done) =>
    LET raw == upload.file.raw
        Follows(text) ==
          /\ \A k \in 1..Len(text) : text[k] \in 0..1114111
          /\ IF ~IsRaised(decode_utf8(raw)) THEN text = decode_utf8(raw).val
             ELSE IF ~IsRaised(decode_utf8_sig(raw)) THEN text = decode_utf8_sig(raw).val
             ELSE text = raw
          /\ Returned /\ Len(parsed.out.val.entries) = 1 /\ PageText = strip(text)
    IN Follows(_decode(raw))

\* A buffer that is not UTF-8, with or without a byte order mark, was decoded
\* as latin-1: a character for every byte.
C21_Witness ==
  /\ upload.has /\ parsed.done /\ Returned
  /\ IsRaised(decode_utf8(upload.file.raw)) /\ IsRaised(decode_utf8_sig(upload.file.raw))
  /\ startswith(upload.file.raw, BOM)
  /\ Len(PageText) = MaxBytes

\* The dates that two or more of the entries have.
Repeated(items) ==
  {items[n].date : n \in {n \in 1..Len(items) : \E k \in 1..Len(items) : k # n /\ items[k].date = items[n].date}}

\* C23: the policy is applied entry by entry, also against what the same run
\* wrote before: a run over entries two of which have one date, none of it in
\* the table when the run began, ends without an error and with exactly one
\* row of that date, holding the text of the first of them under "Skip
\* existing" and of the last under "Overwrite existing".
C23_PolicyPerEntry ==
  [][\A s \in Sessions :
       (/\ runs[s].op = "import" /\ runs'[s].op = "done"
        /\ ~runs[s].held
        /\ Repeated(runs[s].items) # {})
         => /\ runs'[s].errors = 0
            /\ \A d \in Repeated(runs[s].items) :
                 LET of == SelectSeq(runs[s].items, LAMBDA e : e.date = d)
                     rows == RowsOf(journal_entries', runs[s].user_id, d)
                 IN /\ Cardinality(rows) = 1
                    /\ \A r \in rows :
                         r.content = IF runs[s].policy = "Skip existing"
                                     THEN of[1].content ELSE of[Len(of)].content]_vars

\* C24: at the end of every import run each of imported, skipped and errors
\* is at least 0 and their sum is the number of parsed entries, also when a
\* batch commit failed.
C24_CountersAddUp ==
  \A s \in Sessions :
    (runs[s].op = "done" /\ runs[s].policy # "") =>
      /\ runs[s].imported >= 0 /\ runs[s].skipped >= 0 /\ runs[s].errors >= 0
      /\ runs[s].imported + runs[s].skipped + runs[s].errors = runs[s].total

\* C27: no step of an import run with the policy "Skip existing" changes or
\* removes a row the table holds, and no step of an import run with either
\* policy changes, removes or adds a row of another user.
C27_SkipKeepsRows ==
  [][\A s \in Sessions :
       ImportStep(s) =>
         /\ runs[s].policy = "Skip existing" => journal_entries \subseteq journal_entries'
         /\ {r \in journal_entries' : r.user_id # runs[s].user_id}
              = {r \in journal_entries : r.user_id # runs[s].user_id}]_vars

\* A run with "Skip existing" ended with its one entry skipped, and the table
\* holds rows of that day with different texts for the two users.
C27_Witness ==
  /\ \E s \in Sessions :
       /\ runs[s].op = "done" /\ runs[s].policy = "Skip existing"
       /\ runs[s].total = 1 /\ runs[s].skipped = 1
  /\ \E r, q \in journal_entries :
       r.user_id # q.user_id /\ r.date = date_today(now) /\ q.date = r.date /\ r.content # q.content

\* The step is a batch commit of the import run of session s.
CommitStep(s) ==
  runs[s].op = "import" /\ (runs'[s].start # runs[s].start \/ runs'[s].op = "done")

\* C28: the entries are committed in batches of batch_size, the last batch
\* being what is left.  A commit that fails writes nothing of its batch and
\* leaves every row of the table, those of the earlier batches among them, as
\* it was, and the run goes on with the next batch if entries are left; a
\* commit that succeeds writes every pending row of its batch.
C28_BatchIsolation ==
  [][\A s \in Sessions :
       CommitStep(s) =>
         LET run == runs[s]
             batch == run.i - run.start
             failed == runs'[s].errors # run.errors
         IN /\ run.start % batch_size = 1
            /\ batch = batch_size \/ (run.i = run.total + 1 /\ batch \in 1..batch_size)
            /\ runs'[s].new = << >> /\ runs'[s].changed = << >>
            /\ runs'[s].op = IF run.i <= run.total THEN "import" ELSE "done"
            /\ runs'[s].i = run.i /\ runs'[s].start = run.i
            /\ IF failed
               THEN /\ journal_entries' = journal_entries
                    /\ runs'[s].errors = run.errors + batch
               ELSE /\ \A n \in 1..Len(run.new) :
                         \E r \in journal_entries' :
                           /\ r.user_id = run.user_id /\ r.date = run.new[n].date
                           /\ r.content = run.new[n].content
                    /\ \A r \in journal_entries :
                         \E q \in journal_entries' : q.user_id = r.user_id /\ q.date = r.date]_vars

\* The first batch of a run failed as a whole and the second was committed:
\* the table holds the row of the last entry and none of the first batch.
C28_Witness ==
  /\ runs[1].op = "done" /\ runs[1].total = batch_size + 1
  /\ runs[1].errors = batch_size /\ runs[1].imported = 1
  /\ \E r \in journal_entries : r.date = date_today(0) /\ r.content = strip(Segment(batch_size + 1))
  /\ \A r \in journal_entries : r.content # strip(Segment(2))

(***************************************************************************)
(* Properties of registration.                                             *)
(***************************************************************************)
\* The address of a row as register_user compares it.
Address(email) == lower(strip(email))

\* C30: registration keeps emails unique: after every register_user call no
\* two rows of users have the same trimmed, lower-cased email, and a call
\* with an empty field, a password of fewer than 8 characters or an email
\* that a row already has reports failure and leaves users as it was.
C30_EmailsUnique ==
  [][ev'.op = "register" =>
       /\ \A u, v \in users' : Address(u.email) = Address(v.email) => u = v
       /\ (\/ ev'.email = << >> \/ ev'.password = << >> \/ ev'.name = << >>
           \/ Len(ev'.password) < 8
           \/ \E u \in users : Address(u.email) = Address(ev'.email))
          => ~ev'.ok /\ users' = users]_vars

\* A registration was refused because a row has the address, typed in
\* another case and with blanks around it.
C30_Witness ==
  /\ ev.op = "register" /\ ~ev.ok
  /\ ev.password # << >> /\ ev.name # << >> /\ Len(ev.password) >= 8
  /\ \E u \in users : Address(u.email) = Address(ev.email) /\ u.email # ev.email
  /\ Cardinality(users) = 1

(***************************************************************************)
(* The pages of one browser session (pages/1_Journal.py, 2_History.py,     *)
(* 5_Chat.py, account.py).  A page script starts with require_auth; what   *)
(* it keeps between its runs is in st.session_state.  Whoever is at the    *)
(* keyboard types texts that name them, so that a text tells whose it is.  *)
(***************************************************************************)
TARGET_WORDS == 750

MaxTurns == 2      \* questions a conversation may hold

\* d[k] = v
Put(d, k, v) == [x \in DOMAIN d \cup {k} |-> IF x = k THEN v ELSE d[x]]

\* len(content.split())
WordCount(content) ==
  Cardinality({i \in 1..Len(content) :
                 ~IsSpace(content[i]) /\ (i = 1 \/ IsSpace(content[i - 1]))})

\* The text contains the word.
Mentions(text, word) ==
  \E i \in 1..(Len(text) - Len(word) + 1) : SubSeq(text, i, i + Len(word) - 1) = word

\* Who is at the keyboard: the user that logged in.
Keyboard(ss) == IF "user_email" \in DOMAIN ss THEN ss["user_email"] ELSE << Ord("?") >>

\* What they write into the text area, and what they ask.
Diary(ss) == Bytes(<< "m", "y", " ", "d", "a", "y", " " >>) \o Keyboard(ss)
Question(ss) == Bytes(<< "w", "h", "o", " ", "i", "s", " " >>) \o Keyboard(ss)

\* a < b for two dates.
DateBefore(a, b) ==
  \/ a[1] < b[1]
  \/ a[1] = b[1] /\ a[2] < b[2]
  \/ a[1] = b[1] /\ a[2] = b[2] /\ a[3] < b[3]

\* db.query(JournalEntry).filter(user_id == ...).order_by(date.asc()).all()
query_all(table, user_id) ==
  LET Ordered(rows) ==
        [n \in 1..Cardinality(rows) |->
           CHOOSE r \in rows : Cardinality({q \in rows : DateBefore(q.date, r.date)}) = n - 1]
  IN Ordered({r \in table : r.user_id = user_id})

Contents(items) == {items[n].content : n \in 1..Len(items)}

RECURSIVE Told(_)
\* The contents of the items, one after the other.
Told(items) ==
  IF items = << >> THEN << >> ELSE items[1].content \o << 10 >> \o Told(Tail(items))

\* answer_journal_question(question, entry_data, history): what the assistant
\* answers is not the program's to decide; the answer taken here repeats
\* what the call was given.
answer_journal_question(question, entry_data, history) ==
  Bytes(<< "r", "e", " " >>) \o question \o << 10 >> \o Told(entry_data) \o Told(history)

\* What a run of a page script did after require_auth: the session state and
\* the table it left, the rows it read, whether it wrote, the texts it showed.
Body(ss, table, read, wrote, shown) ==
  [ss |-> ss, table |-> table, read |-> read, wrote |-> wrote, shown |-> shown]

\* pages/1_Journal.py, on_text_change
on_text_change(ss, content) ==
  Put(Put(ss, "current_word_count", WordCount(content)), "journal_content", content)

\* pages/1_Journal.py, lines 28-46: today's entry is loaded once, and the
\* balloon gate is initialised.
journal_load(ss, existing, utcnow) ==
  LET Text(c) ==
        Put(Put(Put(ss, "journal_content", c), "current_word_count", WordCount(c)),
            "last_saved_time", IF existing = {} THEN None ELSE utcnow)
      Loaded == IF "journal_content" \in DOMAIN ss THEN ss
                ELSE IF existing = {} THEN Text(<< >>)
                ELSE Text((CHOOSE r \in existing : TRUE).content)
  IN IF "balloon_shown_today" \in DOMAIN Loaded THEN Loaded
     ELSE Put(Loaded, "balloon_shown_today", FALSE)

\* pages/1_Journal.py, lines 126-129
balloon_gate(ss) ==
  IF ss["current_word_count"] >= TARGET_WORDS /\ ~ss["balloon_shown_today"]
  THEN Put(ss, "balloon_shown_today", TRUE) ELSE ss

\* pages/1_Journal.py past require_auth; with save, the text area holds
\* content and Save was clicked.
journal_page(ss, table, utcnow, content, save) ==
  LET Read == IF "journal_content" \in DOMAIN ss THEN {}
              ELSE query_first(table, ss["user_id"], date_today(utcnow))
      Saved(s, found, done) ==
        Body(IF done.ok THEN Put(s, "last_saved_time", utcnow) ELSE s,
             done.table, Read \cup found, done.ok, {content})
      Save(s, found) ==
        IF found # {}
        THEN Saved(s, found, commit(table, s["user_id"], << >>, << Changed(found, content) >>))
        ELSE Saved(s, found, commit(table, s["user_id"],
                                    << ParsedEntry(date_today(utcnow), content) >>, << >>))
      Shown(s) ==
        IF save THEN Save(s, query_first(table, s["user_id"], date_today(utcnow)))
        ELSE Body(s, table, Read, FALSE, {s["journal_content"]})
  IN Shown(balloon_gate(journal_load(ss, Read, utcnow)))

\* pages/2_History.py past require_auth: the entries of the user are shown.
history_page(ss, table) ==
  LET Listed(entries) == Body(ss, table, {entries[n] : n \in 1..Len(entries)}, FALSE,
                              Contents(entries))
  IN Listed(query_all(table, ss["user_id"]))

\* pages/5_Chat.py past require_auth (the API key is set): asked says
\* whether a question was submitted, clear whether "Clear conversation" was
\* clicked.  (The ChatLog table is not part of the model.)
chat_page(ss, table, asked, question, clear) ==
  LET Asked(s, entries, history) ==
        Body(Put(s, "chat_history",
                 s["chat_history"] \o
                   << [role |-> "user", content |-> question],
                      [role |-> "assistant",
                       content |-> answer_journal_question(question, entries, history)] >>),
             table, {entries[n] : n \in 1..Len(entries)}, FALSE,
             Contents(s["chat_history"])
               \cup {question, answer_journal_question(question, entries, history)})
      Chat(s, entries) ==
        IF s["chat_history"] # << >> /\ clear
        THEN Body(Put(s, "chat_history", << >>), table,
                  {entries[n] : n \in 1..Len(entries)}, FALSE, {})
        ELSE IF asked
        THEN Asked(s, entries,
                   SubSeq(s["chat_history"],
                          IF Len(s["chat_history"]) > 10 THEN Len(s["chat_history"]) - 9 ELSE 1,
                          Len(s["chat_history"])))
        ELSE Body(s, table, {entries[n] : n \in 1..Len(entries)}, FALSE,
                  Contents(s["chat_history"]))
      Fetched(entries) ==
        IF entries = << >> THEN Body(ss, table, {}, FALSE, {})
        ELSE Chat(IF "chat_history" \in DOMAIN ss THEN ss ELSE Put(ss, "chat_history", << >>),
                  entries)
  IN Fetched(query_all(table, ss["user_id"]))

\* The record of a run of a page script.
Served(e, body) ==
  [k \in DOMAIN e \cup {"read", "wrote", "shown"} |->
     IF k = "read" THEN body.read
     ELSE IF k = "wrote" THEN body.wrote
     ELSE IF k = "shown" THEN body.shown
     ELSE e[k]]

\* The script of the page past require_auth.
page_script(op, ss, table, utcnow) ==
  IF op = "journal" THEN journal_page(ss, table, utcnow, << >>, FALSE)
  ELSE IF op = "save" THEN journal_page(ss, table, utcnow, Diary(ss), TRUE)
  ELSE IF op = "history" THEN history_page(ss, table)
  ELSE IF op = "chat" THEN chat_page(ss, table, FALSE, << >>, FALSE)
  ELSE IF op = "ask" THEN chat_page(ss, table, TRUE, Question(ss), FALSE)
  ELSE chat_page(ss, table, FALSE, << >>, TRUE)

\* A run of a page script from the session state ss: require_auth, and the
\* script if require_auth returns.
Serve(op, ss) ==
  LET Ran(r, body) ==
        /\ page' = "protected"
        /\ session_state' = body.ss
        /\ query_params' = r.o.qp
        /\ journal_entries' = body.table
        /\ ev' = Served(Event(op, session_state, query_params, r.o), body)
      Required(r) ==
        IF r.o.raised # "" \/ r.switched THEN
          /\ page' = IF r.switched THEN "login" ELSE "error"
          /\ session_state' = IF r.switched THEN r.o.ss ELSE ss
          /\ query_params' = IF r.switched THEN r.o.qp ELSE query_params
          /\ journal_entries' = journal_entries
          /\ ev' = Served(Event(op, session_state, query_params, r.o),
                          Body(ss, journal_entries, {}, FALSE, {}))
        ELSE Ran(r, page_script(op, r.o.ss, journal_entries, now))
  IN
  /\ Required(require_auth(ss, query_params, users, now))
  /\ UNCHANGED << now, users, discarded, tokVars, upload, parsed, runs >>

\* pages/1_Journal.py is run.
JournalPage == Serve("journal", session_state)

\* pages/1_Journal.py: a text is typed and Save is clicked; the callback of
\* the text area runs before the script.
JournalSave ==
  /\ page = "protected"
  /\ Serve("save", on_text_change(session_state, Diary(session_state)))

\* pages/2_History.py is run.
HistoryPage == Serve("history", session_state)

\* pages/5_Chat.py is run.
ChatPage == Serve("chat", session_state)

\* pages/5_Chat.py: a question is submitted.
ChatAsk ==
  /\ page = "protected"
  /\ "chat_history" \in DOMAIN session_state
       => Len(session_state["chat_history"]) < 2 * MaxTurns
  /\ Serve("ask", session_state)

\* pages/5_Chat.py: "Clear conversation" is clicked.
ChatClear ==
  /\ page = "protected"
  /\ "chat_history" \in DOMAIN session_state /\ session_state["chat_history"] # << >>
  /\ Serve("clear", session_state)

NextPages ==
  \/ \E e \in EmailInputs, p \in PasswordInputs, n \in NameInputs : Register(e, p, n)
  \/ \E e \in EmailInputs, p \in PasswordInputs : Login(e, p)
  \/ RunApp
  \/ Logout
  \/ OpenPlain
  \/ \E t \in UrlForged[now] : OpenUrl(t)
  \/ JournalPage
  \/ JournalSave
  \/ HistoryPage
  \/ ChatPage
  \/ ChatAsk
  \/ ChatClear

SpecPages == Init /\ [][NextPages]_vars

PageOps == {"journal", "save", "history", "chat", "ask", "clear"}

(***************************************************************************)
(* Properties of the pages.                                                *)
(***************************************************************************)
\* The texts that the session state holds.
Texts(ss) ==
  (IF "journal_content" \in DOMAIN ss THEN {ss["journal_content"]} ELSE {})
    \cup (IF "chat_history" \in DOMAIN ss THEN Contents(ss["chat_history"]) ELSE {})

\* C25: after logout the session state holds no identity field and no text
\* made from a user's data (journal text, chat conversation), and a page run
\* for a user shows no text made from another user's data.
C25_LogoutClearsUserData ==
  /\ ev.op = "logout" =>
       /\ DOMAIN session_state \cap {"authenticated", "user_id", "user_name", "user_email"} = {}
       /\ \A u \in users : \A t \in Texts(session_state) : ~Mentions(t, u.email)
  /\ ev.op \in PageOps /\ IsAuthenticated(session_state) =>
       \A u \in users : \A t \in ev.shown :
         Mentions(t, u.email) => u.id = session_state["user_id"]

\* The session is that of a row of users.
SessionOf(ss, db) ==
  /\ IsAuthenticated(ss)
  /\ \E u \in db : /\ u.id = ss["user_id"]
                   /\ u.name = ss["user_name"]
                   /\ u.email = ss["user_email"]

\* The run began without a session, and its URL held no token, or a string
\* that _decode_token refused, or a token for a user id that has no row.
NoSessionToRestore(e, db) ==
  /\ ~e.pre_auth
  /\ \/ ~e.had_tok
     \/ e.called /\ ~IsRaised(e.out) /\ (e.out.val = None \/ UsersById(db, e.out.val) = {})

\* C26: a page script runs past require_auth only in a session authenticated
\* as a user that has a row, and reads only that user's entries; a run
\* without a session and with no token, an invalid token or a token for a
\* user without a row ends at the login page, reads no entry and leaves the
\* journal_entries table as it was.
C26_AuthenticationGate ==
  [][ev'.op \in PageOps =>
       /\ page' = "protected" =>
            /\ SessionOf(session_state', users)
            /\ \A r \in ev'.read : r.user_id = session_state'["user_id"]
       /\ page' # "protected" =>
            ev'.read = {} /\ ~ev'.wrote /\ ev'.shown = {} /\ journal_entries' = journal_entries
       /\ NoSessionToRestore(ev', users) =>
            page' = "login" /\ ~IsAuthenticated(session_state')]_vars

\* A page was asked for with a correctly signed, unexpired token for a user
\* id without a row, while the table held entries: the run ended at the
\* login page.
C26_Witness ==
  /\ ev.op \in PageOps /\ ~ev.pre_auth /\ ev.had_tok
  /\ ev.called /\ ev.out.val # None /\ ev.out.val # 0 /\ UsersById(users, ev.out.val) = {}
  /\ page = "login"
  /\ journal_entries # {}

====
